---- MODULE Spec2Model ----
(***************************************************************************)
(* Model of the training-enrollment backend: accounts, enrollments, the    *)
(* payment session state machine and the token service.  A service call   *)
(* occupies a slot of `calls`; every awaited database statement of a       *)
(* handler is one step, so calls of different slots interleave at the      *)
(* statement level.  `users`, `trainings`, `enrollments` and `payments`    *)
(* hold the committed rows; writes of an interactive transaction stay in   *)
(* the call record until its commit step.                                  *)
(***************************************************************************)
EXTENDS Integers, Sequences, FiniteSets, TLC

VARIABLES users, trainings, enrollments, payments, certificates, now, ticks, calls, tokens, jwt,
          req, pool, rls

vars == <<users, trainings, enrollments, payments, certificates, now, ticks, calls, tokens, jwt,
          req, pool, rls>>

clock == <<now, ticks>>

(* the request in the middleware chain, the connection pools and the       *)
(* statement under the row-level policies                                  *)
plumbing == <<req, pool, rls>>

dbvars == <<users, trainings, enrollments, payments, certificates>>

-----------------------------------------------------------------------------
(* Bounds of the model *)

MaxTicks == 3

MaxPayments == 2

MaxSessions == 2

Slots == {"s1", "s2"}

UserIds == {"u1", "u2", "a1"}

TrainingIds == {"t1"}

(* Program constants *)

FIVE_MINUTES == 5 * 60 * 1000

JWT_EXPIRES_IN == 24 * 60 * 60

JWT_SECRET == "server-secret"

SliceMod == 16 * 16 * 16 * 16 * 16 * 16

-----------------------------------------------------------------------------
(* Rows and lookups *)

NoRow == [id |-> 0]

Idle == [op |-> "none", pc |-> "idle"]

EnrollmentsOf(u, t) == {e \in enrollments : e.user_id = u /\ e.training_id = t}

PaymentsOf(u, t) == {p \in payments : p.user_id = u /\ p.training_id = t}

EnrollmentById(id) == {e \in enrollments : e.id = id}

PaymentById(id) == {p \in payments : p.id = id}

NextEnrollmentId == Cardinality(enrollments) + 1

NextPaymentId == Cardinality(payments) + 1

Busy(s) == calls[s].pc \notin {"idle", "done"}

SetCall(s, c) == calls' = [calls EXCEPT ![s] = c]

(* the handler returns or throws: its locals are gone, the response stays *)
Finish(s, r) ==
  calls' = [calls EXCEPT ![s] = [op |-> @.op, pc |-> "done", user |-> @.user,
                                 args |-> @.args, res |-> r]]

Fail(s, msg) == Finish(s, [ok |-> FALSE, error |-> msg])

(* Row locks held by the interactive transactions that are in flight *)

PendingInsertKeys(s) ==
  {<<calls[o].user, calls[o].args.tid>> : o \in {x \in Slots \ {s} :
      calls[x].op = "createEnrollmentWithDetails" /\ calls[x].pc = "cewd_commit"}}

LockedUsers(s) ==
  {calls[o].user : o \in {x \in Slots \ {s} :
      calls[x].op = "createEnrollmentWithDetails"
      /\ calls[x].pc \in {"cewd_tx_create", "cewd_commit"}}}

LockedPayments(s) ==
  {calls[o].args.pid : o \in {x \in Slots \ {s} :
      calls[x].op = "updatePaymentStatus"
      /\ calls[x].pc \in {"ups_enrollment", "ups_commit"}}}

LockedEnrollments(s) ==
  UNION {calls[o].matched : o \in {x \in Slots \ {s} :
      calls[x].op = "updatePaymentStatus" /\ calls[x].pc = "ups_commit"}}

-----------------------------------------------------------------------------
(* Token service: generateToken / verifyToken.  A token is the record of   *)
(* its claims plus the key it was signed with.                             *)

NoToken == [ok |-> FALSE, error |-> "Token generation failed"]

generateTokenPlain(payload, t) ==
  IF payload.id = "" \/ payload.role = "" \/ payload.email = ""
    THEN NoToken
    ELSE [ok |-> TRUE, id |-> payload.id, role |-> payload.role, email |-> payload.email,
          is_admin |-> FALSE,
          iat |-> t \div 1000, exp |-> (t \div 1000) + JWT_EXPIRES_IN,
          iss |-> "qthink-solutions-backend", aud |-> "qthink-solutions-users",
          key |-> JWT_SECRET]

generateToken(payload, t) ==
  IF payload.id = "" \/ payload.role = "" \/ payload.email = ""
    THEN NoToken
    ELSE [ok |-> TRUE, id |-> payload.id, role |-> payload.role, email |-> payload.email,
          is_admin |-> (payload.has_is_admin /\ payload.is_admin),
          iat |-> t \div 1000, exp |-> (t \div 1000) + JWT_EXPIRES_IN,
          iss |-> "qthink-solutions-backend", aud |-> "qthink-solutions-users",
          key |-> JWT_SECRET]

verifyToken(token, t) ==
  IF ~token.ok THEN [ok |-> FALSE, error |-> "Token verification failed"]
  ELSE IF token.key # JWT_SECRET THEN [ok |-> FALSE, error |-> "Invalid token"]
  ELSE IF (t \div 1000) >= token.exp THEN [ok |-> FALSE, error |-> "Token expired"]
  ELSE IF token.aud # "qthink-solutions-users" \/ token.iss # "qthink-solutions-backend"
    THEN [ok |-> FALSE, error |-> "Invalid token"]
  ELSE IF token.id = "" \/ token.role = "" \/ token.email = ""
    THEN [ok |-> FALSE, error |-> "Token verification failed"]
  ELSE IF token.role \notin {"user", "admin"}
    THEN [ok |-> FALSE, error |-> "Token verification failed"]
  ELSE [ok |-> TRUE, id |-> token.id, role |-> token.role, email |-> token.email,
        is_admin |-> token.is_admin, iat |-> token.iat, exp |-> token.exp,
        iss |-> token.iss, aud |-> token.aud]

-----------------------------------------------------------------------------
(* Authentication and role gates in front of the /api/user and /api/admin   *)
(* routers.  tokens[u] is the token account u holds (issued by signup or   *)
(* login); the gates decide on the claims of that token.                   *)

ReqUser(u) == verifyToken(tokens[u], now)

requireRole(u, allowed) == ReqUser(u).ok /\ ReqUser(u).role \in allowed

UserGate(u) == requireRole(u, {"user"})

AdminGate(u) == requireRole(u, {"admin"})

-----------------------------------------------------------------------------
(* Enrollment creation: createEnrollment *)

TrainingActive(t) == t \in TrainingIds /\ trainings[t].exists /\ trainings[t].is_active

NoUniqueIndex(u, t) == FALSE

(* the unique index enrollments_user_id_training_id_key *)
UniqueViolation(u, t) == EnrollmentsOf(u, t) # {}

EnrollmentView(e, created) ==
  [ok |-> TRUE, id |-> e.id, user_id |-> e.user_id, training_id |-> e.training_id,
   status |-> e.status, created |-> created]

StartCreateEnrollment(s, u, t) ==
  /\ ~Busy(s)
  /\ UserGate(u)
  /\ SetCall(s, [op |-> "createEnrollment", pc |-> IF t = "" THEN "done" ELSE "ce_training",
                 user |-> ReqUser(u).id, args |-> [tid |-> t],
                 res |-> [ok |-> FALSE,
                          error |-> IF t = "" THEN "Training ID is required" ELSE ""]])
  /\ UNCHANGED <<dbvars, clock, tokens, jwt, plumbing>>

CE_FindTraining(s) ==
  /\ calls[s].op = "createEnrollment" /\ calls[s].pc = "ce_training"
  /\ IF TrainingActive(calls[s].args.tid)
       THEN SetCall(s, [calls[s] EXCEPT !.pc = "ce_existing"])
       ELSE Fail(s, "Training program not found or not active")
  /\ UNCHANGED <<dbvars, clock, tokens, jwt, plumbing>>

CE_FindExisting(s) ==
  /\ calls[s].op = "createEnrollment" /\ calls[s].pc = "ce_existing"
  /\ IF EnrollmentsOf(calls[s].user, calls[s].args.tid) # {}
       THEN Fail(s, "Already enrolled in this training program")
       ELSE SetCall(s, [calls[s] EXCEPT !.pc = "ce_create"])
  /\ UNCHANGED <<dbvars, clock, tokens, jwt, plumbing>>

CE_Create(s) ==
  LET u == calls[s].user
      t == calls[s].args.tid
      e == [id |-> NextEnrollmentId, user_id |-> u, training_id |-> t,
            status |-> "pending_payment"]
  IN /\ calls[s].op = "createEnrollment" /\ calls[s].pc = "ce_create"
     /\ <<u, t>> \notin PendingInsertKeys(s)
     /\ IF UniqueViolation(u, t)
          THEN /\ Fail(s, "Already enrolled in this training program")
               /\ UNCHANGED enrollments
          ELSE IF ~trainings[t].exists
            THEN /\ Fail(s, "Foreign key constraint failed")
                 /\ UNCHANGED enrollments
            ELSE /\ enrollments' = enrollments \cup {e}
                 /\ Finish(s, EnrollmentView(e, TRUE))
     /\ UNCHANGED <<users, trainings, certificates, payments, clock, tokens, jwt, plumbing>>

-----------------------------------------------------------------------------
(* Enrollment creation with profile details: createEnrollmentWithDetails *)

ProfileWrite(row, profileData) ==
  [row EXCEPT !.full_name = IF profileData.full_name = "undefined" THEN @
                            ELSE profileData.full_name,
              !.phone = IF profileData.phone = "undefined" THEN @ ELSE profileData.phone]

StartCreateEnrollmentWithDetails(s, u, t, body) ==
  /\ ~Busy(s)
  /\ UserGate(u)
  /\ LET early == IF body.email # ReqUser(u).email THEN "Email must match your account email"
                  ELSE IF t = "" THEN "Training ID is required" ELSE ""
     IN SetCall(s, [op |-> "createEnrollmentWithDetails",
                    pc |-> IF early = "" THEN "cewd_training" ELSE "done",
                    user |-> ReqUser(u).id, args |-> [tid |-> t, body |-> body],
                    profileData |-> [full_name |-> body.full_name, phone |-> body.phone],
                    existing |-> NoRow,
                    res |-> [ok |-> FALSE, error |-> early]])
  /\ UNCHANGED <<dbvars, clock, tokens, jwt, plumbing>>

CEWD_FindTraining(s) ==
  /\ calls[s].op = "createEnrollmentWithDetails" /\ calls[s].pc = "cewd_training"
  /\ IF TrainingActive(calls[s].args.tid)
       THEN SetCall(s, [calls[s] EXCEPT !.pc = "cewd_existing"])
       ELSE Fail(s, "Training program not found or not active")
  /\ UNCHANGED <<dbvars, clock, tokens, jwt, plumbing>>

CEWD_FindExistingAnyStatus(s) ==
  LET found == EnrollmentsOf(calls[s].user, calls[s].args.tid)
  IN /\ calls[s].op = "createEnrollmentWithDetails" /\ calls[s].pc = "cewd_existing"
     /\ IF found = {}
          THEN SetCall(s, [calls[s] EXCEPT !.pc = "cewd_tx_user"])
          ELSE \E e \in found :
                 SetCall(s, [calls[s] EXCEPT !.pc = "cewd_retry", !.existing = e])
     /\ UNCHANGED <<dbvars, clock, tokens, jwt, plumbing>>

CEWD_FindExisting(s) ==
  LET found == EnrollmentsOf(calls[s].user, calls[s].args.tid)
  IN /\ calls[s].op = "createEnrollmentWithDetails" /\ calls[s].pc = "cewd_existing"
     /\ IF found = {}
          THEN SetCall(s, [calls[s] EXCEPT !.pc = "cewd_tx_user"])
          ELSE \E e \in found :
                 IF e.status = "pending_payment"
                   THEN SetCall(s, [calls[s] EXCEPT !.pc = "cewd_retry", !.existing = e])
                   ELSE Fail(s, "Already enrolled in this training program")
     /\ UNCHANGED <<dbvars, clock, tokens, jwt, plumbing>>

CEWD_RetryProfile(s) ==
  LET u == calls[s].user
  IN /\ calls[s].op = "createEnrollmentWithDetails" /\ calls[s].pc = "cewd_retry"
     /\ u \notin LockedUsers(s)
     /\ users' = [users EXCEPT ![u] = ProfileWrite(@, calls[s].profileData)]
     /\ Finish(s, EnrollmentView(calls[s].existing, FALSE))
     /\ UNCHANGED <<trainings, certificates, enrollments, payments, clock, tokens, jwt, plumbing>>

CEWD_TxUserUpdate(s) ==
  /\ calls[s].op = "createEnrollmentWithDetails" /\ calls[s].pc = "cewd_tx_user"
  /\ calls[s].user \notin LockedUsers(s)
  /\ SetCall(s, [calls[s] EXCEPT !.pc = "cewd_tx_create"])
  /\ UNCHANGED <<dbvars, clock, tokens, jwt, plumbing>>

CEWD_TxCreate(s) ==
  LET u == calls[s].user
      t == calls[s].args.tid
  IN /\ calls[s].op = "createEnrollmentWithDetails" /\ calls[s].pc = "cewd_tx_create"
     /\ <<u, t>> \notin PendingInsertKeys(s)
     /\ IF UniqueViolation(u, t)
          THEN Fail(s, "Already enrolled in this training program")
          ELSE IF ~trainings[t].exists
            THEN Fail(s, "Foreign key constraint failed")
            ELSE SetCall(s, [calls[s] EXCEPT !.pc = "cewd_commit"])
     /\ UNCHANGED <<dbvars, clock, tokens, jwt, plumbing>>

CEWD_Commit(s) ==
  LET u == calls[s].user
      e == [id |-> NextEnrollmentId, user_id |-> u, training_id |-> calls[s].args.tid,
            status |-> "pending_payment"]
  IN /\ calls[s].op = "createEnrollmentWithDetails" /\ calls[s].pc = "cewd_commit"
     /\ users' = [users EXCEPT ![u] = ProfileWrite(@, calls[s].profileData)]
     /\ enrollments' = enrollments \cup {e}
     /\ Finish(s, EnrollmentView(e, TRUE))
     /\ UNCHANGED <<trainings, certificates, payments, clock, tokens, jwt, plumbing>>

-----------------------------------------------------------------------------
(* Self-service profile update: updateProfile -> updateUserProfile *)

Undefined == "undefined"

(* college and company are copied exactly as full_name is and are left out of the rows *)
AllowedFields == {"full_name", "phone", "profession"}

ProfileBodies ==
  {[full_name |-> "Eve", phone |-> Undefined, profession |-> Undefined, role |-> "admin",
    is_admin |-> "true"],
   [full_name |-> Undefined, phone |-> "987", profession |-> "student", role |-> Undefined,
    is_admin |-> Undefined],
   [full_name |-> Undefined, phone |-> "0", profession |-> "hacker", role |-> "admin",
    is_admin |-> Undefined],
   [full_name |-> Undefined, phone |-> "0", profession |-> Undefined, role |-> Undefined,
    is_admin |-> "true"]}

(* updateProfile copies the allowed fields of req.body that are defined *)
FilterBody(body) ==
  [f \in AllowedFields |-> body[f]]

PhoneToDb(v) == IF v \in {"0", ""} THEN "null" ELSE v

UpdateFieldsDefaults(row, updateData) ==
  [row EXCEPT
     !.full_name = IF updateData.full_name = Undefined THEN @ ELSE updateData.full_name,
     !.phone = IF updateData.phone = Undefined THEN @ ELSE PhoneToDb(updateData.phone),
     !.profession = IF updateData.profession = Undefined THEN @ ELSE updateData.profession,
     !.role = "user", !.is_admin = FALSE]

UpdateFields(row, updateData) ==
  [row EXCEPT
     !.full_name = IF updateData.full_name = Undefined THEN @ ELSE updateData.full_name,
     !.phone = IF updateData.phone = Undefined THEN @ ELSE PhoneToDb(updateData.phone),
     !.profession = IF updateData.profession = Undefined THEN @ ELSE updateData.profession]

ProfileView(row, u) ==
  [ok |-> TRUE, id |-> u, full_name |-> row.full_name, email |-> row.email,
   phone |-> row.phone, profession |-> row.profession, role |-> row.role,
   is_admin |-> row.is_admin]

StartUpdateProfile(s, u, body) ==
  LET updateData == FilterBody(body)
      bad == updateData.profession \notin {Undefined, "", "student", "professional"}
  IN /\ ~Busy(s)
     /\ UserGate(u)
     /\ SetCall(s, [op |-> "updateProfile", pc |-> IF bad THEN "done" ELSE "up_update",
                    user |-> ReqUser(u).id, args |-> [body |-> body],
                    updateData |-> updateData,
                    res |-> [ok |-> FALSE, error |-> IF bad
                      THEN "Profession must be either student or professional" ELSE ""]])
     /\ UNCHANGED <<dbvars, clock, tokens, jwt, plumbing>>

UP_Update(s) ==
  LET u == calls[s].user
      row == UpdateFields(users[u], calls[s].updateData)
  IN /\ calls[s].op = "updateProfile" /\ calls[s].pc = "up_update"
     /\ u \notin LockedUsers(s)
     /\ users' = [users EXCEPT ![u] = row]
     /\ Finish(s, ProfileView(row, u))
     /\ UNCHANGED <<trainings, certificates, enrollments, payments, clock, tokens, jwt, plumbing>>

-----------------------------------------------------------------------------
(* Signup: userSignup controller and service *)

ValidEmails == {"u1@x.io", "u2@x.io", "a1@x.io"}

SignupBodies ==
  {[full_name |-> "Eve", email |-> "u2@x.io", password |-> "Passw0rd", phone |-> "987",
    profession |-> Undefined, role |-> "admin", is_admin |-> "true"],
   [full_name |-> "Bob", email |-> "u2@x.io", password |-> "Passw0rd", phone |-> Undefined,
    profession |-> "student", role |-> Undefined, is_admin |-> Undefined],
   [full_name |-> "Dan", email |-> "u1@x.io", password |-> "Passw0rd", phone |-> Undefined,
    profession |-> Undefined, role |-> Undefined, is_admin |-> "true"],
   [full_name |-> "Ann", email |-> "nowhere", password |-> "Passw0rd", phone |-> Undefined,
    profession |-> Undefined, role |-> "admin", is_admin |-> Undefined],
   [full_name |-> "", email |-> "u2@x.io", password |-> "Passw0rd", phone |-> Undefined,
    profession |-> "hacker", role |-> "admin", is_admin |-> Undefined]}

NoUser ==
  [exists |-> FALSE, role |-> "user", is_admin |-> FALSE, email |-> "", full_name |-> "",
   phone |-> "null", profession |-> "null"]

FreeUserIds == {u \in UserIds : ~users[u].exists}

UsersByEmail(email) == {u \in UserIds : users[u].exists /\ users[u].email = email}

SignupValidation(userData) ==
  IF userData.full_name = "" \/ userData.email = "" \/ userData.password = ""
    THEN "Full name, email, and password are required"
  ELSE IF userData.email \notin ValidEmails THEN "Invalid email format"
  ELSE IF userData.profession \notin {Undefined, "", "student", "professional"}
    THEN "Profession must be either student or professional"
  ELSE ""

SignupRowAsAdmin(userData) ==
  [exists |-> TRUE, role |-> "admin", is_admin |-> TRUE, email |-> userData.email,
   full_name |-> userData.full_name, phone |-> "null", profession |-> "null"]

(* the row written by prisma.user.create in userSignup *)
SignupRow(userData) ==
  [exists |-> TRUE, role |-> "user", is_admin |-> FALSE, email |-> userData.email,
   full_name |-> userData.full_name, phone |-> PhoneToDb(IF userData.phone = Undefined
                                                          THEN "" ELSE userData.phone),
   profession |-> IF userData.profession \in {Undefined, ""} THEN "null"
                  ELSE userData.profession]

TokenPayload(id, row) ==
  [id |-> id, role |-> row.role, email |-> row.email, has_is_admin |-> TRUE,
   is_admin |-> row.is_admin]

StartUserSignup(s, body) ==
  LET userData == [f \in {"full_name", "email", "phone", "profession", "password"} |-> body[f]]
      early == SignupValidation(userData)
  IN /\ ~Busy(s)
     /\ SetCall(s, [op |-> "userSignup", pc |-> IF early = "" THEN "us_find" ELSE "done",
                    user |-> "anonymous", args |-> [body |-> body], userData |-> userData,
                    res |-> [ok |-> FALSE, error |-> early]])
     /\ UNCHANGED <<dbvars, clock, tokens, jwt, plumbing>>

US_FindEmail(s) ==
  /\ calls[s].op = "userSignup" /\ calls[s].pc = "us_find"
  /\ IF UsersByEmail(calls[s].userData.email) # {}
       THEN Fail(s, "Email already exists")
       ELSE SetCall(s, [calls[s] EXCEPT !.pc = "us_create"])
  /\ UNCHANGED <<dbvars, clock, tokens, jwt, plumbing>>

(* bcrypt.hash has no effect on the stored state and is folded into the create step *)
US_Create(s) ==
  LET userData == calls[s].userData
  IN /\ calls[s].op = "userSignup" /\ calls[s].pc = "us_create"
     /\ IF UsersByEmail(userData.email) # {}
          THEN /\ Fail(s, "Email already exists")
               /\ UNCHANGED <<users, tokens>>
          ELSE /\ FreeUserIds # {}
               /\ LET id == CHOOSE u \in FreeUserIds : TRUE
                      row == SignupRow(userData)
                      token == generateToken(TokenPayload(id, row), now)
                  IN /\ users' = [users EXCEPT ![id] = row]
                     /\ tokens' = [tokens EXCEPT ![id] = token]
                     /\ Finish(s, [ok |-> TRUE, id |-> id, role |-> row.role,
                                   is_admin |-> row.is_admin, token |-> token])
     /\ UNCHANGED <<trainings, certificates, enrollments, payments, clock, jwt, plumbing>>

-----------------------------------------------------------------------------
(* Administrator: updateUserRole *)

RoleDatas ==
  {[role |-> "admin", is_admin |-> "true"], [role |-> Undefined, is_admin |-> "true"],
   [role |-> "user", is_admin |-> "false"], [role |-> "root", is_admin |-> Undefined]}

RoleFields(row, roleData) ==
  [row EXCEPT !.role = IF roleData.role = Undefined THEN @ ELSE roleData.role,
              !.is_admin = IF roleData.is_admin = Undefined THEN @
                           ELSE roleData.is_admin = "true"]

StartUpdateUserRole(s, a, target, roleData) ==
  LET bad == roleData.role \notin {Undefined, "", "user", "admin"}
  IN /\ ~Busy(s)
     /\ AdminGate(a)
     /\ SetCall(s, [op |-> "updateUserRole", pc |-> IF bad THEN "done" ELSE "uur_update",
                    user |-> ReqUser(a).id, args |-> [target |-> target, roleData |-> roleData],
                    res |-> [ok |-> FALSE, error |-> IF bad THEN "Invalid role" ELSE ""]])
     /\ UNCHANGED <<dbvars, clock, tokens, jwt, plumbing>>

UUR_Update(s) ==
  LET t == calls[s].args.target
      row == RoleFields(users[t], calls[s].args.roleData)
  IN /\ calls[s].op = "updateUserRole" /\ calls[s].pc = "uur_update"
     /\ t \notin LockedUsers(s)
     /\ IF ~users[t].exists
          THEN /\ Fail(s, "Record to update not found")
               /\ UNCHANGED users
          ELSE /\ users' = [users EXCEPT ![t] = row]
               /\ Finish(s, [ok |-> TRUE, id |-> t, role |-> row.role,
                             is_admin |-> row.is_admin])
     /\ UNCHANGED <<trainings, certificates, enrollments, payments, clock, tokens, jwt, plumbing>>

-----------------------------------------------------------------------------
(* Administrator: updateEnrollmentStatus *)

StartUpdateEnrollmentStatus(s, a, eid, status) ==
  LET bad == status \notin {"pending_payment", "enrolled", "completed"}
  IN /\ ~Busy(s)
     /\ AdminGate(a)
     /\ SetCall(s, [op |-> "updateEnrollmentStatus", pc |-> IF bad THEN "done" ELSE "ues_update",
                    user |-> ReqUser(a).id, args |-> [eid |-> eid, status |-> status],
                    res |-> [ok |-> FALSE, error |-> IF bad THEN "Invalid status" ELSE ""]])
     /\ UNCHANGED <<dbvars, clock, tokens, jwt, plumbing>>

UES_Update(s) ==
  LET eid == calls[s].args.eid
  IN /\ calls[s].op = "updateEnrollmentStatus" /\ calls[s].pc = "ues_update"
     /\ eid \notin LockedEnrollments(s)
     /\ IF EnrollmentById(eid) = {}
          THEN /\ Fail(s, "Record to update not found")
               /\ UNCHANGED enrollments
          ELSE /\ enrollments' = {IF e.id = eid THEN [e EXCEPT !.status = calls[s].args.status]
                                  ELSE e : e \in enrollments}
               /\ Finish(s, [ok |-> TRUE, id |-> eid, status |-> calls[s].args.status])
     /\ UNCHANGED <<users, trainings, certificates, payments, clock, tokens, jwt, plumbing>>

-----------------------------------------------------------------------------
(* Payment sessions: initiatePaymentForEnrollment *)

OwnedByAnyone(row, userId) == TRUE

(* the `user_id: userId` condition of the lookups of the member operations *)
OwnedBy(row, userId) == row.user_id = userId

SliceLast6(id) == id % SliceMod

(* `TXN-${Date.now()}-${enrollmentId.slice(-6)}` *)
PaymentReference(t, enrollmentId) == [ts |-> t, suffix |-> SliceLast6(enrollmentId)]

SessionAge(p) == now - p.created_at

SessionExpiredLate(age) == age > FIVE_MINUTES + 1

SessionExpired(age) == age >= FIVE_MINUTES

SetPaymentStatus(pid, status) ==
  payments' = {IF p.id = pid THEN [p EXCEPT !.status = status] ELSE p : p \in payments}

StartInitiatePayment(s, u, eid) ==
  /\ ~Busy(s)
  /\ UserGate(u)
  /\ SetCall(s, [op |-> "initiatePaymentForEnrollment", pc |-> "ip_enrollment",
                 user |-> ReqUser(u).id, args |-> [eid |-> eid], enrollment |-> NoRow,
                 existing |-> NoRow, paymentReference |-> PaymentReference(0, 0),
                 res |-> [ok |-> FALSE, error |-> ""]])
  /\ UNCHANGED <<dbvars, clock, tokens, jwt, plumbing>>

IP_FindEnrollment(s) ==
  LET found == {e \in enrollments : e.id = calls[s].args.eid /\ OwnedBy(e, calls[s].user)}
  IN /\ calls[s].op = "initiatePaymentForEnrollment" /\ calls[s].pc = "ip_enrollment"
     /\ IF found = {}
          THEN Fail(s, "Enrollment not found or access denied")
          ELSE \E e \in found :
                 IF e.status # "pending_payment"
                   THEN Fail(s, "Enrollment is not in pending payment status")
                   ELSE SetCall(s, [calls[s] EXCEPT !.pc = "ip_existing", !.enrollment = e])
     /\ UNCHANGED <<dbvars, clock, tokens, jwt, plumbing>>

IP_FindExisting(s) ==
  LET c == calls[s]
      found == {p \in PaymentsOf(c.user, c.enrollment.training_id) :
                  p.status = "pending_verification"}
  IN /\ c.op = "initiatePaymentForEnrollment" /\ c.pc = "ip_existing"
     /\ IF found = {}
          THEN SetCall(s, [c EXCEPT !.pc = "ip_create",
                                    !.paymentReference = PaymentReference(now, c.args.eid)])
          ELSE \E p \in found :
                 IF SessionExpired(SessionAge(p))
                   THEN SetCall(s, [c EXCEPT !.pc = "ip_expire", !.existing = p])
                   ELSE SetCall(s, [c EXCEPT !.pc = "ip_reuse_qr", !.existing = p])
     /\ UNCHANGED <<dbvars, clock, tokens, jwt, plumbing>>

(* generateQRCode resolved: the reused session is returned.  Of the       *)
(* response the payment id and the payment reference are kept; the link,   *)
(* the QR image and the timer are functions of them and of the clock.      *)
IP_ReuseReturn(s) ==
  LET c == calls[s]
  IN /\ c.op = "initiatePaymentForEnrollment" /\ c.pc = "ip_reuse_qr"
     /\ Finish(s, [ok |-> TRUE, payment_id |-> c.existing.id, enrollment_id |-> c.args.eid,
                   payment_reference |-> PaymentReference(now, c.args.eid),
                   created |-> FALSE])
     /\ UNCHANGED <<dbvars, clock, tokens, jwt, plumbing>>

IP_Expire(s) ==
  LET c == calls[s]
  IN /\ c.op = "initiatePaymentForEnrollment" /\ c.pc = "ip_expire"
     /\ c.existing.id \notin LockedPayments(s)
     /\ SetPaymentStatus(c.existing.id, "failed")
     /\ SetCall(s, [c EXCEPT !.pc = "ip_create",
                               !.paymentReference = PaymentReference(now, c.args.eid)])
     /\ UNCHANGED <<users, trainings, certificates, enrollments, clock, tokens, jwt, plumbing>>

IP_Create(s) ==
  LET c == calls[s]
      p == [id |-> NextPaymentId, user_id |-> c.user,
            training_id |-> c.enrollment.training_id, status |-> "pending_verification",
            created_at |-> now, transaction_reference |-> "null"]
  IN /\ c.op = "initiatePaymentForEnrollment" /\ c.pc = "ip_create"
     /\ IF ~trainings[c.enrollment.training_id].exists
          THEN /\ Fail(s, "Foreign key constraint failed")
               /\ UNCHANGED payments
          ELSE /\ payments' = payments \cup {p}
               /\ SetCall(s, [c EXCEPT !.pc = "ip_new_qr", !.existing = p])
     /\ UNCHANGED <<users, trainings, certificates, enrollments, clock, tokens, jwt, plumbing>>

IP_NewReturn(s) ==
  LET c == calls[s]
  IN /\ c.op = "initiatePaymentForEnrollment" /\ c.pc = "ip_new_qr"
     /\ Finish(s, [ok |-> TRUE, payment_id |-> c.existing.id, enrollment_id |-> c.args.eid,
                   payment_reference |-> c.paymentReference, created |-> TRUE])
     /\ UNCHANGED <<dbvars, clock, tokens, jwt, plumbing>>

-----------------------------------------------------------------------------
(* Payment records: createPayment *)

StartCreatePayment(s, u, paymentData) ==
  /\ ~Busy(s)
  /\ UserGate(u)
  /\ SetCall(s, [op |-> "createPayment", pc |-> "crp_enrollment",
                 user |-> ReqUser(u).id, args |-> paymentData,
                 res |-> [ok |-> FALSE, error |-> ""]])
  /\ UNCHANGED <<dbvars, clock, tokens, jwt, plumbing>>

(* the required-field test and prisma.enrollment.findUnique on the pair *)
CRP_FindEnrollment(s) ==
  LET c == calls[s]
      d == c.args
      found == IF d.training_id = "undefined" THEN {}
               ELSE EnrollmentsOf(c.user, d.training_id)
  IN /\ c.op = "createPayment" /\ c.pc = "crp_enrollment"
     /\ IF d.training_id = "undefined" \/ d.amount = "undefined"
             \/ d.payment_method = "undefined"
          THEN Fail(s, "Training ID, amount, and payment method are required")
          ELSE IF found = {}
            THEN Fail(s, "No enrollment found for this training program")
            ELSE SetCall(s, [c EXCEPT !.pc = "crp_create"])
     /\ UNCHANGED <<dbvars, clock, tokens, jwt, plumbing>>

(* prisma.payment.create and the returned row *)
CRP_Create(s) ==
  LET c == calls[s]
      d == c.args
      p == [id |-> NextPaymentId, user_id |-> c.user, training_id |-> d.training_id,
            status |-> "pending_verification", created_at |-> now,
            transaction_reference |->
              IF d.transaction_reference = "undefined" THEN "null"
              ELSE d.transaction_reference]
  IN /\ c.op = "createPayment" /\ c.pc = "crp_create"
     /\ IF ~trainings[d.training_id].exists
          THEN /\ Fail(s, "Foreign key constraint failed")
               /\ UNCHANGED payments
          ELSE /\ payments' = payments \cup {p}
               /\ Finish(s, [ok |-> TRUE, id |-> p.id, status |-> p.status])
     /\ UNCHANGED <<users, trainings, certificates, enrollments, clock, tokens, jwt, plumbing>>

-----------------------------------------------------------------------------
(* Payment sessions: confirmPayment *)

TxRefs == {Undefined, "UTR1"}

StartConfirmPayment(s, u, pid, transactionReference) ==
  /\ ~Busy(s)
  /\ UserGate(u)
  /\ SetCall(s, [op |-> "confirmPayment", pc |-> "cp_find", user |-> ReqUser(u).id,
                 args |-> [pid |-> pid, transactionReference |-> transactionReference],
                 res |-> [ok |-> FALSE, error |-> ""]])
  /\ UNCHANGED <<dbvars, clock, tokens, jwt, plumbing>>

CP_Find(s) ==
  LET c == calls[s]
      found == {p \in payments : p.id = c.args.pid /\ OwnedBy(p, c.user)}
  IN /\ c.op = "confirmPayment" /\ c.pc = "cp_find"
     /\ IF found = {}
          THEN Fail(s, "Payment not found or access denied")
          ELSE \E p \in found :
                 IF p.status # "pending_verification"
                   THEN Fail(s, "Payment is not in pending verification status")
                   ELSE IF SessionExpired(SessionAge(p))
                     THEN SetCall(s, [c EXCEPT !.pc = "cp_expire"])
                     ELSE SetCall(s, [c EXCEPT !.pc = "cp_update"])
     /\ UNCHANGED <<dbvars, clock, tokens, jwt, plumbing>>

CP_ExpireRecording(s) ==
  LET c == calls[s]
  IN /\ c.op = "confirmPayment" /\ c.pc = "cp_expire"
     /\ c.args.pid \notin LockedPayments(s)
     /\ payments' = {IF p.id = c.args.pid
                       THEN [p EXCEPT !.status = "failed",
                                      !.transaction_reference = c.args.transactionReference]
                       ELSE p : p \in payments}
     /\ Fail(s, "Payment session expired. Please retry payment.")
     /\ UNCHANGED <<users, trainings, certificates, enrollments, clock, tokens, jwt, plumbing>>

CP_Expire(s) ==
  LET c == calls[s]
  IN /\ c.op = "confirmPayment" /\ c.pc = "cp_expire"
     /\ c.args.pid \notin LockedPayments(s)
     /\ SetPaymentStatus(c.args.pid, "failed")
     /\ Fail(s, "Payment session expired. Please retry payment.")
     /\ UNCHANGED <<users, trainings, certificates, enrollments, clock, tokens, jwt, plumbing>>

ReferenceDropped(transactionReference) == "null"

(* transactionReference || null *)
ReferenceToDb(transactionReference) ==
  IF transactionReference \in {Undefined, ""} THEN "null" ELSE transactionReference

CP_Update(s) ==
  LET c == calls[s]
      ref == ReferenceToDb(c.args.transactionReference)
  IN /\ c.op = "confirmPayment" /\ c.pc = "cp_update"
     /\ c.args.pid \notin LockedPayments(s)
     /\ payments' = {IF p.id = c.args.pid THEN [p EXCEPT !.transaction_reference = ref] ELSE p :
                       p \in payments}
     /\ \E p \in PaymentById(c.args.pid) :
          Finish(s, [ok |-> TRUE, id |-> p.id, status |-> p.status,
                     transaction_reference |-> ref])
     /\ UNCHANGED <<users, trainings, certificates, enrollments, clock, tokens, jwt, plumbing>>

-----------------------------------------------------------------------------
(* Payment sessions: getPaymentStatus with lazy expiry *)

StatusView(p, status, age) ==
  [ok |-> TRUE, id |-> p.id, status |-> status,
   transaction_reference |-> p.transaction_reference,
   is_expired |-> (SessionExpired(age) /\ p.status = "pending_verification")]

StartGetPaymentStatus(s, u, pid) ==
  /\ ~Busy(s)
  /\ UserGate(u)
  /\ SetCall(s, [op |-> "getPaymentStatus", pc |-> "gs_find", user |-> ReqUser(u).id,
                 args |-> [pid |-> pid], payment |-> NoRow, age |-> 0,
                 res |-> [ok |-> FALSE, error |-> ""]])
  /\ UNCHANGED <<dbvars, clock, tokens, jwt, plumbing>>

GS_Find(s) ==
  LET c == calls[s]
      found == {p \in payments : p.id = c.args.pid /\ OwnedBy(p, c.user)}
  IN /\ c.op = "getPaymentStatus" /\ c.pc = "gs_find"
     /\ IF found = {}
          THEN Fail(s, "Payment not found or access denied")
          ELSE \E p \in found :
                 IF p.status = "pending_verification" /\ SessionExpired(SessionAge(p))
                   THEN SetCall(s, [c EXCEPT !.pc = "gs_expire", !.payment = p,
                                             !.age = SessionAge(p)])
                   ELSE Finish(s, StatusView(p, p.status, SessionAge(p)))
     /\ UNCHANGED <<dbvars, clock, tokens, jwt, plumbing>>

GS_Expire(s) ==
  LET c == calls[s]
  IN /\ c.op = "getPaymentStatus" /\ c.pc = "gs_expire"
     /\ c.args.pid \notin LockedPayments(s)
     /\ SetPaymentStatus(c.args.pid, "failed")
     /\ Finish(s, StatusView(c.payment, "failed", c.age))
     /\ UNCHANGED <<users, trainings, certificates, enrollments, clock, tokens, jwt, plumbing>>

-----------------------------------------------------------------------------
(* Administrator: updatePaymentStatus, one interactive transaction *)

PaymentStatuses == {"pending_verification", "verified", "failed", "refunded"}

CascadeFromVerifiedOnly(status) ==
  IF status = "verified" THEN "pending_payment" ELSE "none"

(* the enrollment rows the updateMany of the transaction selects *)
CascadeFrom(status) ==
  IF status = "verified" THEN "pending_payment"
  ELSE IF status = "failed" THEN "enrolled" ELSE "none"

CascadeTo(status) ==
  IF status = "verified" THEN "enrolled"
  ELSE IF status = "failed" THEN "pending_payment" ELSE "none"

CascadeRowsAnyPair(payment, status) ==
  {e \in enrollments : e.status = CascadeFrom(status)}

(* where: user_id, training_id of the payment and the status to move from *)
CascadeRows(payment, status) ==
  {e \in EnrollmentsOf(payment.user_id, payment.training_id) :
     e.status = CascadeFrom(status)}

StartUpdatePaymentStatus(s, a, pid, status) ==
  LET bad == status \notin PaymentStatuses
  IN /\ ~Busy(s)
     /\ AdminGate(a)
     /\ SetCall(s, [op |-> "updatePaymentStatus", pc |-> IF bad THEN "done" ELSE "ups_payment",
                    user |-> ReqUser(a).id, args |-> [pid |-> pid, status |-> status],
                    matched |-> {},
                    res |-> [ok |-> FALSE, error |-> IF bad THEN "Invalid payment status"
                                                     ELSE ""]])
     /\ UNCHANGED <<dbvars, clock, tokens, jwt, plumbing>>

UPS_PaymentAutocommit(s) ==
  LET c == calls[s]
  IN /\ c.op = "updatePaymentStatus" /\ c.pc = "ups_payment"
     /\ c.args.pid \notin LockedPayments(s)
     /\ IF PaymentById(c.args.pid) = {}
          THEN Fail(s, "Record to update not found") /\ UNCHANGED payments
          ELSE /\ SetPaymentStatus(c.args.pid, c.args.status)
               /\ SetCall(s, [c EXCEPT !.pc = IF CascadeFrom(c.args.status) = "none"
                                                THEN "ups_commit" ELSE "ups_enrollment"])
     /\ UNCHANGED <<users, trainings, certificates, enrollments, clock, tokens, jwt, plumbing>>

(* tx.payment.update: the row is locked, the write is visible at COMMIT *)
UPS_Payment(s) ==
  LET c == calls[s]
  IN /\ c.op = "updatePaymentStatus" /\ c.pc = "ups_payment"
     /\ c.args.pid \notin LockedPayments(s)
     /\ IF PaymentById(c.args.pid) = {}
          THEN Fail(s, "Record to update not found")
          ELSE SetCall(s, [c EXCEPT !.pc = IF CascadeFrom(c.args.status) = "none"
                                            THEN "ups_commit" ELSE "ups_enrollment"])
     /\ UNCHANGED <<dbvars, clock, tokens, jwt, plumbing>>

UPS_Enrollment(s) ==
  LET c == calls[s]
  IN /\ c.op = "updatePaymentStatus" /\ c.pc = "ups_enrollment"
     /\ \E p \in PaymentById(c.args.pid) :
          LET ids == {e.id : e \in CascadeRows(p, c.args.status)}
          IN /\ ids \cap LockedEnrollments(s) = {}
             /\ SetCall(s, [c EXCEPT !.pc = "ups_commit", !.matched = ids])
     /\ UNCHANGED <<dbvars, clock, tokens, jwt, plumbing>>

UPS_Commit(s) ==
  LET c == calls[s]
  IN /\ c.op = "updatePaymentStatus" /\ c.pc = "ups_commit"
     /\ SetPaymentStatus(c.args.pid, c.args.status)
     /\ enrollments' = {IF e.id \in c.matched THEN [e EXCEPT !.status = CascadeTo(c.args.status)]
                        ELSE e : e \in enrollments}
     /\ Finish(s, [ok |-> TRUE, id |-> c.args.pid, status |-> c.args.status])
     /\ UNCHANGED <<users, trainings, certificates, clock, tokens, jwt, plumbing>>

(* a statement of the transaction fails or the transaction times out: ROLLBACK *)
UPS_Abort(s) ==
  /\ calls[s].op = "updatePaymentStatus"
  /\ calls[s].pc \in {"ups_enrollment", "ups_commit"}
  /\ Fail(s, "Transaction failed")
  /\ UNCHANGED <<dbvars, clock, tokens, jwt, plumbing>>

-----------------------------------------------------------------------------
(* Administrator: deleteTrainingProgram and createCertificate *)

(* rows that hold a foreign key ... ON DELETE RESTRICT to the program *)
ReferencesTo(programId) ==
  {<<"enrollment", e.id>> : e \in {x \in enrollments : x.training_id = programId}}
    \cup {<<"payment", q.id>> : q \in {x \in payments : x.training_id = programId}}
    \cup {<<"certificate", c.user_id>> : c \in {x \in certificates : x.training_id = programId}}

StartDeleteTrainingProgram(s, a, programId) ==
  /\ ~Busy(s)
  /\ AdminGate(a)
  /\ SetCall(s, [op |-> "deleteTrainingProgram", pc |-> "dt_find", user |-> ReqUser(a).id,
                 args |-> [tid |-> programId], res |-> [ok |-> FALSE, error |-> ""]])
  /\ UNCHANGED <<dbvars, clock, tokens, jwt, plumbing>>

DT_Find(s) ==
  /\ calls[s].op = "deleteTrainingProgram" /\ calls[s].pc = "dt_find"
  /\ IF trainings[calls[s].args.tid].exists
       THEN SetCall(s, [calls[s] EXCEPT !.pc = "dt_count"])
       ELSE Fail(s, "Training program not found")
  /\ UNCHANGED <<dbvars, clock, tokens, jwt, plumbing>>

DT_Count(s) ==
  LET enrollmentCount ==
        Cardinality({e \in enrollments : e.training_id = calls[s].args.tid})
  IN /\ calls[s].op = "deleteTrainingProgram" /\ calls[s].pc = "dt_count"
     /\ IF enrollmentCount > 0
          THEN Fail(s, "Cannot delete training program with existing enrollments")
          ELSE SetCall(s, [calls[s] EXCEPT !.pc = "dt_delete"])
     /\ UNCHANGED <<dbvars, clock, tokens, jwt, plumbing>>

(* prisma.trainingProgram.delete: waits for the key-share locks of inserts *)
(* in flight, then the RESTRICT foreign keys decide                        *)
DT_Delete(s) ==
  LET t == calls[s].args.tid
  IN /\ calls[s].op = "deleteTrainingProgram" /\ calls[s].pc = "dt_delete"
     /\ t \notin {k[2] : k \in PendingInsertKeys(s)}
     /\ IF ~trainings[t].exists
          THEN /\ Fail(s, "Record to delete does not exist")
               /\ UNCHANGED trainings
          ELSE IF ReferencesTo(t) # {}
            THEN /\ Fail(s, "Foreign key constraint failed")
                 /\ UNCHANGED trainings
            ELSE /\ trainings' = [trainings EXCEPT ![t].exists = FALSE]
                 /\ Finish(s, [ok |-> TRUE, id |-> t])
     /\ UNCHANGED <<users, enrollments, payments, certificates, clock, tokens, jwt, plumbing>>

StartCreateCertificate(s, a, certificateData) ==
  LET bad == certificateData.user_id = "" \/ certificateData.training_id = ""
  IN /\ ~Busy(s)
     /\ AdminGate(a)
     /\ SetCall(s, [op |-> "createCertificate", pc |-> IF bad THEN "done" ELSE "cc_create",
                    user |-> ReqUser(a).id, args |-> certificateData,
                    res |-> [ok |-> FALSE,
                             error |-> IF bad THEN "User ID, training ID, and issue date are required"
                                       ELSE ""]])
     /\ UNCHANGED <<dbvars, clock, tokens, jwt, plumbing>>

CC_Create(s) ==
  LET d == calls[s].args
  IN /\ calls[s].op = "createCertificate" /\ calls[s].pc = "cc_create"
     /\ IF \E c \in certificates : c.user_id = d.user_id /\ c.training_id = d.training_id
          THEN /\ Fail(s, "Unique constraint failed")
               /\ UNCHANGED certificates
          ELSE IF ~users[d.user_id].exists \/ ~trainings[d.training_id].exists
            THEN /\ Fail(s, "Foreign key constraint failed")
                 /\ UNCHANGED certificates
            ELSE /\ certificates' = certificates \cup
                                      {[user_id |-> d.user_id, training_id |-> d.training_id]}
                 /\ Finish(s, [ok |-> TRUE, user_id |-> d.user_id,
                               training_id |-> d.training_id])
     /\ UNCHANGED <<users, trainings, enrollments, payments, clock, tokens, jwt, plumbing>>

-----------------------------------------------------------------------------
(* Time *)

(* The clock is read at instants that straddle the verification window:   *)
(* one millisecond before the window of a session ends, at its end, one    *)
(* millisecond after it, and so on for the next window.                    *)
TickStep(k) == IF k % 3 = 0 THEN FIVE_MINUTES - 1 ELSE 1

Tick ==
  /\ ticks < MaxTicks
  /\ now' = now + TickStep(ticks)
  /\ ticks' = ticks + 1
  /\ UNCHANGED <<dbvars, calls, tokens, jwt, plumbing>>

-----------------------------------------------------------------------------
(* Accounts and enrollments: the state after the seed accounts (one member, *)
(* one administrator) and one active training program exist.               *)

Member(email, name) ==
  [exists |-> TRUE, role |-> "user", is_admin |-> FALSE, email |-> email, full_name |-> name,
   phone |-> "null", profession |-> "null"]

Admin(email, name) ==
  [Member(email, name) EXCEPT !.role = "admin", !.is_admin = TRUE]

IssuedAtStart(rows) ==
  [u \in UserIds |-> IF rows[u].exists THEN generateToken(TokenPayload(u, rows[u]), 0)
                     ELSE NoToken]

NoJwt == [pc |-> "off"]

NoReq == [stage |-> "off"]

NoPool == [on |-> FALSE]

NoRls == [stage |-> "off"]

CewdBodies ==
  {[email |-> "u1@x.io", full_name |-> "Eve", phone |-> "987", role |-> "admin",
    is_admin |-> "true"],
   [email |-> "u2@x.io", full_name |-> Undefined, phone |-> "555", role |-> Undefined,
    is_admin |-> Undefined]}

EnrollmentStatuses == {"pending_payment", "enrolled", "completed"}

Init ==
  /\ users = [u \in UserIds |-> IF u = "u1" THEN Member("u1@x.io", "Uma")
                                ELSE IF u = "a1" THEN Admin("a1@x.io", "Ada") ELSE NoUser]
  /\ tokens = IssuedAtStart(users)
  /\ trainings = [t \in TrainingIds |-> [exists |-> TRUE, is_active |-> TRUE]]
  /\ enrollments = {}
  /\ payments = {}
  /\ certificates = {}
  /\ now = 0
  /\ ticks = 0
  /\ calls = [s \in Slots |-> Idle]
  /\ jwt = NoJwt
  /\ req = NoReq
  /\ rls = NoRls
  /\ pool = NoPool

SignupStep(s) ==
  \/ \E body \in SignupBodies : StartUserSignup(s, body)
  \/ US_FindEmail(s)
  \/ US_Create(s)

ProfileStep(s) ==
  \/ \E u \in UserIds, body \in ProfileBodies : StartUpdateProfile(s, u, body)
  \/ UP_Update(s)

RoleStep(s) ==
  \/ \E a \in UserIds, t \in {"u1", "u2"}, roleData \in RoleDatas :
       StartUpdateUserRole(s, a, t, roleData)
  \/ UUR_Update(s)

CreateEnrollmentStep(s) ==
  \/ \E u \in UserIds, t \in TrainingIds \cup {""} : StartCreateEnrollment(s, u, t)
  \/ CE_FindTraining(s)
  \/ CE_FindExisting(s)
  \/ CE_Create(s)

EnrollWithDetailsStep(s) ==
  \/ \E u \in UserIds, t \in TrainingIds \cup {""}, body \in CewdBodies :
       StartCreateEnrollmentWithDetails(s, u, t, body)
  \/ CEWD_FindTraining(s)
  \/ CEWD_FindExisting(s)
  \/ CEWD_RetryProfile(s)
  \/ CEWD_TxUserUpdate(s)
  \/ CEWD_TxCreate(s)
  \/ CEWD_Commit(s)

EnrollmentStatusStep(s) ==
  \/ \E a \in UserIds, eid \in 1..2, st \in EnrollmentStatuses :
       StartUpdateEnrollmentStatus(s, a, eid, st)
  \/ UES_Update(s)

(* Accounts: signup, self-service profile writes and role administration,  *)
(* one request at a time.                                                  *)
AcctSlots == {"s1"}

Next ==
  \E s \in AcctSlots :
    \/ SignupStep(s)
    \/ ProfileStep(s)
    \/ RoleStep(s)
    \/ EnrollWithDetailsStep(s)

Spec == Init /\ [][Next]_vars

(* Role administration over every account, the administrator's own        *)
(* included, with the tokens that were issued at the start                 *)
DemoteStep(s) ==
  \/ \E a \in UserIds, t \in UserIds, roleData \in RoleDatas :
       StartUpdateUserRole(s, a, t, roleData)
  \/ UUR_Update(s)

NextDemote == \E s \in Slots : DemoteStep(s)

(* Enrollment creation by two members, requests interleaved statement by   *)
(* statement, with the administrator changing enrollment status.           *)
InitEnroll ==
  /\ users = [u \in UserIds |-> IF u = "a1" THEN Admin("a1@x.io", "Ada")
                                ELSE Member(IF u = "u1" THEN "u1@x.io" ELSE "u2@x.io", "Uma")]
  /\ tokens = IssuedAtStart(users)
  /\ trainings = [t \in TrainingIds |-> [exists |-> TRUE, is_active |-> TRUE]]
  /\ enrollments = {}
  /\ payments = {}
  /\ certificates = {}
  /\ now = 0
  /\ ticks = 0
  /\ calls = [s \in Slots |-> Idle]
  /\ jwt = NoJwt
  /\ req = NoReq
  /\ rls = NoRls
  /\ pool = NoPool

NextEnroll ==
  \E s \in Slots :
    \/ CreateEnrollmentStep(s)
    \/ EnrollWithDetailsStep(s)
    \/ EnrollmentStatusStep(s)

SpecEnroll == InitEnroll /\ [][NextEnroll]_vars

SpecDemote == InitEnroll /\ [][NextDemote]_vars

(* Payment sessions: member u1 holds an enrollment in pending_payment,     *)
(* member u2 holds none; two requests interleave statement by statement    *)
(* while time passes.                                                      *)
InitPay ==
  /\ users = [u \in UserIds |-> IF u = "a1" THEN Admin("a1@x.io", "Ada")
                                ELSE Member(IF u = "u1" THEN "u1@x.io" ELSE "u2@x.io", "Uma")]
  /\ tokens = IssuedAtStart(users)
  /\ trainings = [t \in TrainingIds |-> [exists |-> TRUE, is_active |-> TRUE]]
  /\ enrollments = {[id |-> 1, user_id |-> "u1", training_id |-> "t1",
                     status |-> "pending_payment"]}
  /\ payments = {}
  /\ certificates = {}
  /\ now = 0
  /\ ticks = 0
  /\ calls = [s \in Slots |-> Idle]
  /\ jwt = NoJwt
  /\ req = NoReq
  /\ rls = NoRls
  /\ pool = NoPool

PaymentIds == 1..2

AdminTargets == {"verified", "failed", "refunded", "paid"}

InitiateStep(s) ==
  \/ \E u \in UserIds, eid \in 1..2 : StartInitiatePayment(s, u, eid)
  \/ IP_FindEnrollment(s)
  \/ IP_FindExisting(s)
  \/ IP_ReuseReturn(s)
  \/ IP_Expire(s)
  \/ IP_Create(s)
  \/ IP_NewReturn(s)

ConfirmStep(s) ==
  \/ \E u \in UserIds, pid \in PaymentIds, ref \in TxRefs : StartConfirmPayment(s, u, pid, ref)
  \/ CP_Find(s)
  \/ CP_Expire(s)
  \/ CP_Update(s)

StatusStep(s) ==
  \/ \E u \in UserIds, pid \in PaymentIds : StartGetPaymentStatus(s, u, pid)
  \/ GS_Find(s)
  \/ GS_Expire(s)

AdminPaymentStep(s) ==
  \/ \E a \in UserIds, pid \in PaymentIds, st \in AdminTargets :
       StartUpdatePaymentStatus(s, a, pid, st)
  \/ UPS_Payment(s)
  \/ UPS_Enrollment(s)
  \/ UPS_Commit(s)
  \/ UPS_Abort(s)

MemberSlot == "s1"

(* one member request at a time: initiate, confirm and status read *)
NextPay ==
  /\ \/ InitiateStep(MemberSlot)
     \/ ConfirmStep(MemberSlot)
     \/ StatusStep(MemberSlot)
     \/ Tick
  /\ Cardinality(payments') <= MaxPayments

SpecPay == InitPay /\ [][NextPay]_vars

(* Payment sessions of the members alone: initiate requests interleaved    *)
NextSession ==
  /\ \/ \E s \in Slots : InitiateStep(s)
     \/ Tick
  /\ Cardinality(payments') <= MaxSessions

SpecSession == InitPay /\ [][NextSession]_vars

(* Payment verification: the state after member u1 opened a payment        *)
(* session for the enrollment; administrator requests interleave.          *)
InitAdmin ==
  /\ users = [u \in UserIds |-> IF u = "a1" THEN Admin("a1@x.io", "Ada")
                                ELSE Member(IF u = "u1" THEN "u1@x.io" ELSE "u2@x.io", "Uma")]
  /\ tokens = IssuedAtStart(users)
  /\ trainings = [t \in TrainingIds |-> [exists |-> TRUE, is_active |-> TRUE]]
  /\ enrollments = {[id |-> 1, user_id |-> "u1", training_id |-> "t1",
                     status |-> "pending_payment"]}
  /\ payments = {[id |-> 1, user_id |-> "u1", training_id |-> "t1",
                  status |-> "pending_verification", created_at |-> 0,
                  transaction_reference |-> "null"]}
  /\ certificates = {}
  /\ now = 0
  /\ ticks = 0
  /\ calls = [s \in Slots |-> Idle]
  /\ jwt = NoJwt
  /\ req = NoReq
  /\ rls = NoRls
  /\ pool = NoPool

NextAdmin == \E s \in Slots : AdminPaymentStep(s)

SpecAdmin == InitAdmin /\ [][NextAdmin]_vars

-----------------------------------------------------------------------------
(* Payment verification with two members enrolled: each enrollment is in   *)
(* any of its statuses and each member has one payment awaiting            *)
(* verification                                                            *)
InitCascade ==
  /\ users = [u \in UserIds |-> IF u = "a1" THEN Admin("a1@x.io", "Ada")
                                ELSE Member(IF u = "u1" THEN "u1@x.io" ELSE "u2@x.io", "Uma")]
  /\ tokens = IssuedAtStart(users)
  /\ trainings = [t \in TrainingIds |-> [exists |-> TRUE, is_active |-> TRUE]]
  /\ \E st1, st2 \in EnrollmentStatuses :
       enrollments = {[id |-> 1, user_id |-> "u1", training_id |-> "t1", status |-> st1],
                      [id |-> 2, user_id |-> "u2", training_id |-> "t1", status |-> st2]}
  /\ payments = {[id |-> 1, user_id |-> "u1", training_id |-> "t1",
                  status |-> "pending_verification", created_at |-> 0,
                  transaction_reference |-> "null"],
                 [id |-> 2, user_id |-> "u2", training_id |-> "t1",
                  status |-> "pending_verification", created_at |-> 0,
                  transaction_reference |-> "null"]}
  /\ certificates = {}
  /\ now = 0
  /\ ticks = 0
  /\ calls = [s \in Slots |-> Idle]
  /\ jwt = NoJwt
  /\ req = NoReq
  /\ rls = NoRls
  /\ pool = NoPool

NextCascade == \E s \in Slots : AdminPaymentStep(s)

SpecCascade == InitCascade /\ [][NextCascade]_vars

-----------------------------------------------------------------------------
(* Lazy expiry against verification: member u1 reads, confirms or reopens  *)
(* the session of payment 1 on one slot while the administrator sets the   *)
(* payment's status on the other, and time passes                          *)

AdminSlot == "s2"

ExpiryMemberStart(s) ==
  \/ StartGetPaymentStatus(s, "u1", 1)
  \/ StartConfirmPayment(s, "u1", 1, "UTR1")
  \/ StartInitiatePayment(s, "u1", 1)

ExpiryMemberRun(s) ==
  \/ GS_Find(s) \/ GS_Expire(s)
  \/ CP_Find(s) \/ CP_Expire(s) \/ CP_Update(s)
  \/ IP_FindEnrollment(s) \/ IP_FindExisting(s) \/ IP_ReuseReturn(s)
  \/ IP_Expire(s) \/ IP_Create(s) \/ IP_NewReturn(s)

ExpiryAdminStart(s) ==
  \E st \in {"verified", "failed"} : StartUpdatePaymentStatus(s, "a1", 1, st)

ExpiryAdminRun(s) ==
  UPS_Payment(s) \/ UPS_Enrollment(s) \/ UPS_Commit(s) \/ UPS_Abort(s)

NextExpiry ==
  /\ \/ ExpiryMemberStart(MemberSlot)
     \/ ExpiryMemberRun(MemberSlot)
     \/ ExpiryAdminStart(AdminSlot)
     \/ ExpiryAdminRun(AdminSlot)
     \/ Tick
  /\ Cardinality(payments') <= MaxSessions

SpecExpiry == InitAdmin /\ [][NextExpiry]_vars

-----------------------------------------------------------------------------
(* Payments of one pair, one request at a time: member u1 creates a        *)
(* payment record, opens a session or reads a status, the administrator    *)
(* sets a payment's status; from the state with one open session           *)

MaxLedger == 3

PaymentDatas ==
  {[training_id |-> t, amount |-> a, payment_method |-> "UPI", transaction_reference |-> r] :
     t \in TrainingIds \cup {Undefined}, a \in {Undefined, "100"}, r \in TxRefs}

LedgerStart(s) ==
  \/ \E d \in PaymentDatas : StartCreatePayment(s, "u1", d)
  \/ StartInitiatePayment(s, "u1", 1)
  \/ \E pid \in PaymentIds : StartGetPaymentStatus(s, "u1", pid)
  \/ \E pid \in PaymentIds, st \in {"verified", "failed", "refunded"} :
       StartUpdatePaymentStatus(s, "a1", pid, st)

LedgerRun(s) ==
  \/ CRP_FindEnrollment(s) \/ CRP_Create(s)
  \/ IP_FindEnrollment(s) \/ IP_FindExisting(s) \/ IP_ReuseReturn(s)
  \/ IP_Expire(s) \/ IP_Create(s) \/ IP_NewReturn(s)
  \/ GS_Find(s) \/ GS_Expire(s)
  \/ UPS_Payment(s) \/ UPS_Enrollment(s) \/ UPS_Commit(s) \/ UPS_Abort(s)

NextLedger ==
  /\ \/ LedgerStart(MemberSlot)
     \/ LedgerRun(MemberSlot)
     \/ Tick
  /\ Cardinality(payments') <= MaxLedger

SpecLedger == InitAdmin /\ [][NextLedger]_vars

-----------------------------------------------------------------------------
(* Status administration: from the state with one payment session open,    *)
(* administrator requests that set payment status and enrollment status    *)
(* interleave.                                                             *)
NextStatus ==
  \E s \in Slots :
    \/ AdminPaymentStep(s)
    \/ EnrollmentStatusStep(s)

SpecStatus == InitAdmin /\ [][NextStatus]_vars

-----------------------------------------------------------------------------
(* Catalog: the administrator deletes the training program and issues      *)
(* certificates while a member enrolls; requests interleave statement by   *)
(* statement.                                                              *)

CertificateDatas ==
  {[user_id |-> u, training_id |-> t] : u \in {"", "u1"}, t \in TrainingIds}

DeleteStep(s) ==
  \/ \E a \in UserIds, t \in TrainingIds : StartDeleteTrainingProgram(s, a, t)
  \/ DT_Find(s)
  \/ DT_Count(s)
  \/ DT_Delete(s)

CertificateStep(s) ==
  \/ \E a \in UserIds, d \in CertificateDatas : StartCreateCertificate(s, a, d)
  \/ CC_Create(s)

NextCatalog ==
  \E s \in Slots :
    \/ DeleteStep(s)
    \/ CertificateStep(s)
    \/ CreateEnrollmentStep(s)

SpecCatalog == InitEnroll /\ [][NextCatalog]_vars

-----------------------------------------------------------------------------
(* Token service alone: a payload is handed to generateToken and the token *)
(* to verifyToken, while the clock moves up to and past the token's expiry. *)

Payloads ==
  {[id |-> i, role |-> r, email |-> e, has_is_admin |-> h, is_admin |-> a] :
     i \in {"", "u1"}, r \in {"", "user", "admin", "root"}, e \in {"", "u1@x.io"},
     h \in BOOLEAN, a \in BOOLEAN}

InitJwt ==
  /\ users = [u \in UserIds |-> NoUser]
  /\ tokens = [u \in UserIds |-> NoToken]
  /\ trainings = [t \in TrainingIds |-> [exists |-> TRUE, is_active |-> TRUE]]
  /\ enrollments = {}
  /\ payments = {}
  /\ certificates = {}
  /\ now = 0
  /\ ticks = 0
  /\ calls = [s \in Slots |-> Idle]
  /\ \E payload \in Payloads :
       /\ payload.has_is_admin \/ ~payload.is_admin
       /\ jwt = [pc |-> "payload", payload |-> payload, token |-> NoToken, issued_at |-> 0,
                 verified_at |-> 0, result |-> [ok |-> FALSE, error |-> ""]]
  /\ req = NoReq
  /\ rls = NoRls
  /\ pool = NoPool

JwtGenerate ==
  /\ jwt.pc = "payload"
  /\ jwt' = [jwt EXCEPT !.token = generateToken(jwt.payload, now), !.issued_at = now,
                         !.pc = IF generateToken(jwt.payload, now).ok THEN "token"
                                ELSE "rejected"]
  /\ UNCHANGED <<dbvars, clock, calls, tokens, plumbing>>

JwtVerify ==
  /\ jwt.pc = "token"
  /\ jwt' = [jwt EXCEPT !.result = verifyToken(jwt.token, now), !.verified_at = now,
                         !.pc = "verified"]
  /\ UNCHANGED <<dbvars, clock, calls, tokens, plumbing>>

(* instants around the expiry of a token issued at 0: the same second, the *)
(* last millisecond before exp, exp itself, and later                      *)
JwtTickStep(k) ==
  IF k = 0 THEN 500 ELSE IF k = 1 THEN JWT_EXPIRES_IN * 1000 - 501 ELSE 1

JwtTick ==
  /\ ticks < MaxTicks
  /\ now' = now + JwtTickStep(ticks)
  /\ ticks' = ticks + 1
  /\ UNCHANGED <<dbvars, calls, tokens, jwt, plumbing>>

NextJwt == JwtGenerate \/ JwtVerify \/ JwtTick

SpecJwt == InitJwt /\ [][NextJwt]_vars

-----------------------------------------------------------------------------
(* The middleware chain in front of a handler: authenticateToken, then     *)
(* requireRole, then logAdminActivity on administrator routes, then the    *)
(* handler.  `req` is the request with what the chain attached to it and   *)
(* the response, if one was sent.                                          *)

NullToken == [ok |-> FALSE, error |-> "null"]

NoReqUser == [attached |-> FALSE, id |-> "", role |-> "", email |-> "", is_admin |-> FALSE]

extractTokenAnyScheme(authHeader) ==
  IF ~authHeader.present THEN NullToken
  ELSE IF authHeader.parts # 2 THEN NullToken
  ELSE authHeader.token

(* authHeader.split(' '): the number of parts, the first and the second part *)
extractTokenFromHeader(authHeader) ==
  IF ~authHeader.present THEN NullToken
  ELSE IF authHeader.parts # 2 \/ authHeader.scheme # "Bearer" THEN NullToken
  ELSE authHeader.token

allowedRolesIncludesAny(user, allowedRoles) == TRUE

allowedRolesIncludes(user, allowedRoles) == user.role \in allowedRoles

Respond(status, message, event) ==
  req' = [req EXCEPT !.stage = "responded", !.status = status, !.message = message,
                     !.events = Append(@, event)]

authenticateToken ==
  LET token == extractTokenFromHeader(req.header)
      decoded == verifyToken(token, now)
  IN /\ req.stage = "auth"
     /\ IF token = NullToken
          THEN Respond("401", "Access token required", "MISSING_TOKEN")
          ELSE IF ~decoded.ok
            THEN IF decoded.error = "Token expired"
                   THEN Respond("401", "Token expired", "TOKEN_EXPIRED")
                   ELSE IF decoded.error = "Invalid token"
                     THEN Respond("401", "Invalid token", "INVALID_TOKEN")
                     ELSE Respond("401", "Token verification failed",
                                  "TOKEN_VERIFICATION_FAILED")
            ELSE req' = [req EXCEPT !.stage = "role",
                                    !.user = [attached |-> TRUE, id |-> decoded.id,
                                              role |-> decoded.role, email |-> decoded.email,
                                              is_admin |-> decoded.is_admin]]
     /\ UNCHANGED <<dbvars, clock, calls, tokens, jwt, pool, rls>>

requireRoleStep ==
  /\ req.stage = "role"
  /\ IF ~req.user.attached
       THEN Respond("401", "Authentication required", "RBAC_NO_USER_CONTEXT")
       ELSE IF ~allowedRolesIncludes(req.user, req.route.allowedRoles)
         THEN Respond("403", "Insufficient permissions", "RBAC_ACCESS_DENIED")
         ELSE req' = [req EXCEPT !.stage = IF req.route.audited THEN "audit" ELSE "handler"]
  /\ UNCHANGED <<dbvars, clock, calls, tokens, jwt, pool, rls>>

logAdminActivityStrict(insertFails) ==
  /\ req.stage = "audit"
  /\ IF ~req.user.attached \/ req.user.role # "admin"
       THEN req' = [req EXCEPT !.stage = "handler"]
       ELSE IF insertFails
         THEN req' = [req EXCEPT !.stage = "responded", !.status = "500",
                                 !.message = "Internal server error", !.audit = "failed"]
         ELSE req' = [req EXCEPT !.stage = "handler", !.audit = "written"]
  /\ UNCHANGED <<dbvars, clock, calls, tokens, jwt, pool, rls>>

(* the INSERT INTO admin_activity_logs succeeds or throws; next() follows *)
logAdminActivity(insertFails) ==
  /\ req.stage = "audit"
  /\ IF ~req.user.attached \/ req.user.role # "admin"
       THEN req' = [req EXCEPT !.stage = "handler"]
       ELSE req' = [req EXCEPT !.stage = "handler",
                               !.audit = IF insertFails THEN "failed" ELSE "written"]
  /\ UNCHANGED <<dbvars, clock, calls, tokens, jwt, pool, rls>>

HandlerSlot == "s1"

(* the controller calls the service once with req.user.id and the request's *)
(* parameters; the service runs in the slot                                *)
RunHandler ==
  /\ req.stage = "handler"
  /\ calls[HandlerSlot] = Idle
  /\ IF req.route.name = "admin"
       THEN \E pid \in {1}, st \in {"verified", "failed"} :
              StartUpdatePaymentStatus(HandlerSlot, req.user.id, pid, st)
       ELSE \E pid \in {1} : StartGetPaymentStatus(HandlerSlot, req.user.id, pid)

ServiceStep ==
  /\ req.stage = "handler"
  /\ \/ UPS_Payment(HandlerSlot)
     \/ UPS_Enrollment(HandlerSlot)
     \/ UPS_Commit(HandlerSlot)
     \/ UPS_Abort(HandlerSlot)
     \/ GS_Find(HandlerSlot)
     \/ GS_Expire(HandlerSlot)

(* res.status(200).json(...) of the controller, or the error handler *)
SendResult ==
  /\ req.stage = "handler"
  /\ calls[HandlerSlot].pc = "done"
  /\ req' = [req EXCEPT !.stage = "responded",
                         !.status = IF calls[HandlerSlot].res.ok THEN "200" ELSE "error",
                         !.message = IF calls[HandlerSlot].res.ok THEN "success"
                                     ELSE calls[HandlerSlot].res.error]
  /\ UNCHANGED <<dbvars, clock, calls, tokens, jwt, pool, rls>>

-----------------------------------------------------------------------------
(* Requests at the gate: every shape of Authorization header with tokens   *)
(* that are valid, expired, signed with another key, issued for another    *)
(* audience, or carry a role or an email the gate rejects.                 *)

PastIssue == 0 - JWT_EXPIRES_IN * 1000

HeaderTokens ==
  LET member == [id |-> "u1", role |-> "user", email |-> "u1@x.io", has_is_admin |-> TRUE,
                 is_admin |-> FALSE]
      admin == [id |-> "a1", role |-> "admin", email |-> "a1@x.io", has_is_admin |-> TRUE,
                is_admin |-> TRUE]
  IN {generateToken(member, 0), generateToken(admin, 0),
      generateToken(admin, PastIssue),
      [generateToken(admin, 0) EXCEPT !.key = "other-secret"],
      [generateToken(admin, 0) EXCEPT !.aud = "other-users"],
      [generateToken(admin, 0) EXCEPT !.role = "root"],
      [generateToken(member, 0) EXCEPT !.email = ""]}

Headers ==
  {[present |-> FALSE, parts |-> 0, scheme |-> "", token |-> NullToken],
   [present |-> TRUE, parts |-> 1, scheme |-> "Bearer", token |-> NullToken]}
    \cup {[present |-> TRUE, parts |-> n, scheme |-> sch, token |-> t] :
            n \in {2, 3}, sch \in {"Bearer", "Basic"}, t \in HeaderTokens}

Routes ==
  {[name |-> "admin", allowedRoles |-> {"admin"}, audited |-> TRUE],
   [name |-> "user", allowedRoles |-> {"user"}, audited |-> FALSE]}

InitGate ==
  /\ users = [u \in UserIds |-> IF u = "a1" THEN Admin("a1@x.io", "Ada")
                                ELSE Member(IF u = "u1" THEN "u1@x.io" ELSE "u2@x.io", "Uma")]
  /\ tokens = IssuedAtStart(users)
  /\ trainings = [t \in TrainingIds |-> [exists |-> TRUE, is_active |-> TRUE]]
  /\ enrollments = {[id |-> 1, user_id |-> "u1", training_id |-> "t1",
                     status |-> "pending_payment"]}
  /\ payments = {[id |-> 1, user_id |-> "u1", training_id |-> "t1",
                  status |-> "pending_verification", created_at |-> 0,
                  transaction_reference |-> "null"]}
  /\ certificates = {}
  /\ now = 0
  /\ ticks = 0
  /\ calls = [s \in Slots |-> Idle]
  /\ jwt = NoJwt
  /\ pool = NoPool
  /\ rls = NoRls
  /\ \E h \in Headers, r \in Routes, first \in {"auth", "role"} :
       req = [stage |-> first, route |-> r, header |-> h, user |-> NoReqUser,
              status |-> "", message |-> "", events |-> <<>>, audit |-> "none"]

NextGate ==
  \/ authenticateToken
  \/ requireRoleStep
  \/ \E insertFails \in BOOLEAN : logAdminActivity(insertFails)
  \/ RunHandler
  \/ ServiceStep
  \/ SendResult
  \/ Tick

SpecGate == InitGate /\ [][NextGate]_vars

-----------------------------------------------------------------------------
(* Properties of accounts *)

StepOf(s, ops) == calls'[s] # calls[s] /\ calls'[s].op \in ops

Finishes(s, ops) == StepOf(s, ops) /\ calls'[s].pc = "done" /\ calls[s].pc # "done"

(* C1: no step of a self-service profile update (updateProfile, or the     *)
(* profile write of createEnrollmentWithDetails) changes the role or the   *)
(* is_admin flag of any account, whatever the request body carries.        *)
C1_ProfileUpdateKeepsRole ==
  [][\A s \in Slots :
       StepOf(s, {"updateProfile", "createEnrollmentWithDetails"})
         => \A u \in UserIds : /\ users'[u].role = users[u].role
                               /\ users'[u].is_admin = users[u].is_admin]_vars

C1_Witness ==
  \E s \in Slots :
    /\ calls[s].op = "updateProfile" /\ calls[s].pc = "done" /\ calls[s].res.ok
    /\ calls[s].args.body.role = "admin" /\ calls[s].args.body.is_admin = "true"
    /\ users[calls[s].user].full_name = calls[s].args.body.full_name
    /\ users[calls[s].user].role = "user" /\ ~users[calls[s].user].is_admin

(* C2: the account a successful userSignup creates has role user and       *)
(* is_admin false, and so do the claims of the token it returns, also when *)
(* the request body carries role or is_admin.                              *)
C2_SignupIsMember ==
  [][\A s \in Slots :
       (Finishes(s, {"userSignup"}) /\ calls'[s].res.ok)
         => LET r == calls'[s].res
            IN /\ ~users[r.id].exists /\ users'[r.id].exists
               /\ users'[r.id].role = "user" /\ users'[r.id].is_admin = FALSE
               /\ r.role = "user" /\ r.is_admin = FALSE
               /\ verifyToken(r.token, now).ok
               /\ verifyToken(r.token, now).id = r.id
               /\ verifyToken(r.token, now).role = "user"
               /\ verifyToken(r.token, now).is_admin = FALSE]_vars

C2_Witness ==
  \E s \in Slots :
    /\ calls[s].op = "userSignup" /\ calls[s].pc = "done" /\ calls[s].res.ok
    /\ calls[s].args.body.role = "admin" /\ calls[s].args.body.is_admin = "true"
    /\ users[calls[s].res.id].role = "user"
    /\ tokens[calls[s].res.id] = calls[s].res.token

-----------------------------------------------------------------------------
(* Properties of enrollment creation *)

CreationOps == {"createEnrollment", "createEnrollmentWithDetails"}

AlreadyEnrolled == [ok |-> FALSE, error |-> "Already enrolled in this training program"]

(* a creation call that passed input validation and the training lookup *)
PastLookup(s) ==
  calls[s].pc \in {"ce_existing", "ce_create", "cewd_existing", "cewd_retry",
                   "cewd_tx_create", "cewd_commit"}

(* C3: at most one enrollment row per (user_id, training_id) pair.         *)
C3_OneEnrollmentPerPair ==
  \A u \in UserIds, t \in TrainingIds : Cardinality(EnrollmentsOf(u, t)) <= 1

C3_Witness ==
  \E s \in Slots, o \in Slots :
    /\ s # o
    /\ calls[s].op \in CreationOps /\ calls[s].pc = "done" /\ calls[s].res.ok
    /\ calls[s].res.created
    /\ calls[o].op \in CreationOps /\ calls[o].pc \in {"ce_create", "cewd_tx_create"}
    /\ calls[o].user = calls[s].user /\ calls[o].args.tid = calls[s].args.tid

(* C4 as stated: a creation call that finishes when the pair already has   *)
(* an enrollment fails with the already-enrolled error.                    *)
C4_Original ==
  [][\A s \in Slots :
       (Finishes(s, CreationOps) /\ PastLookup(s)
        /\ EnrollmentsOf(calls[s].user, calls[s].args.tid) # {})
         => calls'[s].res = AlreadyEnrolled]_vars

(* C4 amended: a creation call for a pair either creates the single row of *)
(* the pair, or creates nothing and fails with the already-enrolled error, *)
(* or is a createEnrollmentWithDetails that found the existing enrollment  *)
(* in pending_payment and returns it without creating a row.               *)
C4_OneCreatorOthersConflictOrRetry ==
  [][\A s \in Slots :
       (Finishes(s, CreationOps) /\ PastLookup(s))
         => LET u == calls[s].user
                t == calls[s].args.tid
                r == calls'[s].res
            IN \/ /\ r.ok /\ r.created
                  /\ EnrollmentsOf(u, t) = {}
                  /\ {e \in enrollments' : e.user_id = u /\ e.training_id = t}
                       = {[id |-> r.id, user_id |-> u, training_id |-> t,
                           status |-> "pending_payment"]}
               \/ /\ r = AlreadyEnrolled
                  /\ enrollments' = enrollments
                  /\ EnrollmentsOf(u, t) # {}
               \/ /\ calls[s].op = "createEnrollmentWithDetails"
                  /\ r.ok /\ ~r.created /\ r.status = "pending_payment"
                  /\ enrollments' = enrollments
                  /\ r.id \in {e.id : e \in EnrollmentsOf(u, t)}]_vars

C4_Witness ==
  \E s \in Slots, o \in Slots :
    /\ s # o
    /\ calls[s].op \in CreationOps /\ calls[s].pc = "done" /\ calls[s].res.ok
    /\ calls[s].res.created
    /\ calls[o].op = "createEnrollmentWithDetails" /\ calls[o].pc = "done"
    /\ calls[o].res.ok /\ ~calls[o].res.created
    /\ calls[o].user = calls[s].user /\ calls[o].args.tid = calls[s].args.tid
    /\ calls[o].res.id = calls[s].res.id

-----------------------------------------------------------------------------
(* Properties of payment sessions *)

InitiateOps == {"initiatePaymentForEnrollment"}

(* C5: when a member's initiatePaymentForEnrollment for an own enrollment  *)
(* in pending_payment created a payment, a second call for the same        *)
(* enrollment that finds that payment inside its 5-minute window returns   *)
(* the same payment_id and the same payment_reference as the first call    *)
(* and creates no payment row.                                             *)
C5_SecondInitiateSameSession ==
  [][\A s \in Slots, o \in Slots :
       (/\ s # o
        /\ Finishes(s, InitiateOps) /\ calls'[s].res.ok
        /\ calls[s].pc = "ip_reuse_qr"
        /\ calls[o].op \in InitiateOps /\ calls[o].pc = "done" /\ calls[o].res.ok
        /\ calls[o].res.created
        /\ calls[o].user = calls[s].user /\ calls[o].args.eid = calls[s].args.eid
        /\ calls[s].existing.id = calls[o].res.payment_id
        /\ now - calls[s].existing.created_at < FIVE_MINUTES)
         => /\ calls'[s].res.payment_id = calls[o].res.payment_id
            /\ calls'[s].res.payment_reference = calls[o].res.payment_reference
            /\ payments' = payments]_vars

-----------------------------------------------------------------------------
(* Properties of payment verification *)

UpdateOps == {"updatePaymentStatus"}

PairOf(pid) ==
  {e \in enrollments : \E p \in PaymentById(pid) :
                         e.user_id = p.user_id /\ e.training_id = p.training_id}

StatusAfter(eid) == {e.status : e \in {x \in enrollments' : x.id = eid}}

(* C6: updatePaymentStatus with target verified applies its two writes in  *)
(* one step: the step that makes the payment verified is the step that     *)
(* makes every pending_payment enrollment of the payment's (user,          *)
(* training) pair enrolled, and it is the step in which the call succeeds; *)
(* every other step of the call, its failure included, leaves the stored   *)
(* rows as they were.                                                      *)
C6_VerifyIsAtomic ==
  [][\A s \in Slots :
       (StepOf(s, UpdateOps) /\ calls'[s].args.status = "verified")
         => \/ /\ Finishes(s, UpdateOps) /\ calls'[s].res.ok
               /\ \A p \in PaymentById(calls[s].args.pid) :
                    payments' = (payments \ {p}) \cup {[p EXCEPT !.status = "verified"]}
               /\ \A e \in PairOf(calls[s].args.pid) :
                    StatusAfter(e.id) = {IF e.status = "pending_payment" THEN "enrolled"
                                         ELSE e.status}
            \/ /\ ~calls'[s].res.ok
               /\ UNCHANGED dbvars]_vars

C6_Witness ==
  \E s \in Slots :
    /\ calls[s].op = "updatePaymentStatus" /\ calls[s].pc = "done" /\ calls[s].res.ok
    /\ calls[s].args.status = "verified"
    /\ \E p \in PaymentById(calls[s].args.pid) :
         /\ p.status = "verified"
         /\ \E e \in EnrollmentsOf(p.user_id, p.training_id) : e.status = "enrolled"
    /\ \E o \in Slots \ {s} :
         /\ calls[o].op = "updatePaymentStatus" /\ calls[o].pc = "done"
         /\ calls[o].args = calls[s].args /\ calls[o].res.error = "Transaction failed"

(* C7: the step in which updatePaymentStatus with target failed succeeds   *)
(* on a payment that was verified sets the payment to failed and every     *)
(* enrolled enrollment of the payment's (user, training) pair back to      *)
(* pending_payment.                                                        *)
C7_FailRevertsEnrollment ==
  [][\A s \in Slots :
       (/\ Finishes(s, UpdateOps) /\ calls'[s].res.ok
        /\ calls[s].args.status = "failed"
        /\ \E p \in PaymentById(calls[s].args.pid) : p.status = "verified")
         => /\ \A p \in PaymentById(calls[s].args.pid) :
                 [p EXCEPT !.status = "failed"] \in payments'
            /\ \A e \in PairOf(calls[s].args.pid) :
                 e.status = "enrolled" => StatusAfter(e.id) = {"pending_payment"}]_vars

C7_Witness ==
  \E s \in Slots, o \in Slots :
    /\ s # o
    /\ calls[s].op = "updatePaymentStatus" /\ calls[s].pc = "done" /\ calls[s].res.ok
    /\ calls[s].args.status = "failed"
    /\ calls[o].op = "updatePaymentStatus" /\ calls[o].pc = "done" /\ calls[o].res.ok
    /\ calls[o].args.status = "verified" /\ calls[o].args.pid = calls[s].args.pid
    /\ \E p \in PaymentById(calls[s].args.pid) :
         /\ p.status = "failed"
         /\ \E e \in EnrollmentsOf(p.user_id, p.training_id) : e.status = "pending_payment"

-----------------------------------------------------------------------------
(* Properties of ownership and of lazy expiry *)

NotFoundError(op) ==
  IF op = "initiatePaymentForEnrollment" THEN "Enrollment not found or access denied"
  ELSE "Payment not found or access denied"

(* the row the call names by id exists and belongs to another account *)
NamesForeignRow(s) ==
  \/ /\ calls[s].op = "initiatePaymentForEnrollment" /\ calls[s].pc = "ip_enrollment"
     /\ \E e \in EnrollmentById(calls[s].args.eid) : e.user_id # calls[s].user
  \/ /\ calls[s].op \in {"confirmPayment", "getPaymentStatus"}
     /\ calls[s].pc \in {"cp_find", "gs_find"}
     /\ \E p \in PaymentById(calls[s].args.pid) : p.user_id # calls[s].user

(* C8: initiatePaymentForEnrollment, confirmPayment and getPaymentStatus   *)
(* called by a member on a row of another account end at their lookup with *)
(* the not-found/access-denied error, a response that carries nothing but  *)
(* that error, and change no stored row.                                   *)
C8_ForeignRowIsNotFound ==
  [][\A s \in Slots :
       (calls'[s] # calls[s] /\ NamesForeignRow(s))
         => /\ calls'[s].pc = "done"
            /\ calls'[s].res = [ok |-> FALSE, error |-> NotFoundError(calls[s].op)]
            /\ UNCHANGED dbvars]_vars

C8_Witness ==
  \E s \in Slots :
    /\ calls[s].op = "getPaymentStatus" /\ calls[s].pc = "done"
    /\ calls[s].user = "u2"
    /\ \E p \in PaymentById(calls[s].args.pid) :
         p.user_id = "u1" /\ p.status = "pending_verification"
    /\ calls[s].res = [ok |-> FALSE, error |-> "Payment not found or access denied"]

(* C9: getPaymentStatus on an own pending_verification payment: read at an *)
(* age below the 5-minute window (one millisecond before it ends included) *)
(* it leaves the payment pending_verification and answers with that status *)
(* and is_expired false; read at an age past the window (one millisecond   *)
(* after it ends included) it goes on to write failed, and the step that   *)
(* writes stores failed and answers status failed with is_expired true.    *)
C9_LazyExpiryBoundary ==
  [][\A s \in Slots :
       (calls'[s] # calls[s] /\ calls[s].op = "getPaymentStatus")
         => /\ calls[s].pc = "gs_find"
                 => \A p \in PaymentById(calls[s].args.pid) :
                      (p.user_id = calls[s].user /\ p.status = "pending_verification")
                        => /\ payments' = payments
                           /\ (now - p.created_at < FIVE_MINUTES)
                                => /\ calls'[s].pc = "done"
                                   /\ calls'[s].res.ok
                                   /\ calls'[s].res.status = "pending_verification"
                                   /\ calls'[s].res.is_expired = FALSE
                           /\ (now - p.created_at > FIVE_MINUTES)
                                => /\ calls'[s].pc = "gs_expire"
                                   /\ calls'[s].age = now - p.created_at
            /\ calls[s].pc = "gs_expire"
                 => /\ calls[s].age >= FIVE_MINUTES
                    /\ calls'[s].pc = "done"
                    /\ calls'[s].res.ok
                    /\ calls'[s].res.status = "failed"
                    /\ calls'[s].res.is_expired = TRUE
                    /\ \A p \in PaymentById(calls[s].args.pid) :
                         [p EXCEPT !.status = "failed"] \in payments']_vars

C9_Witness ==
  \E s \in Slots :
    /\ calls[s].op = "getPaymentStatus" /\ calls[s].pc = "done" /\ calls[s].res.ok
    /\ calls[s].res.status = "failed" /\ calls[s].res.is_expired
    /\ now = FIVE_MINUTES + 1
    /\ \E p \in PaymentById(calls[s].args.pid) :
         p.status = "failed" /\ p.created_at = 0 /\ p.user_id = calls[s].user

-----------------------------------------------------------------------------
(* Properties of the token service *)

(* C10: for a payload with non-empty id and email and role user or admin,  *)
(* verifyToken applied, before the 24 hours of validity are over, to the   *)
(* token generateToken made of it succeeds with claims whose id, role and  *)
(* email are the payload's and whose is_admin is the payload's, false when *)
(* the payload has none.                                                   *)
C10_TokenRoundTrip ==
  (/\ jwt.pc = "verified"
   /\ jwt.payload.id # "" /\ jwt.payload.email # ""
   /\ jwt.payload.role \in {"user", "admin"}
   /\ jwt.verified_at \div 1000 < (jwt.issued_at \div 1000) + 24 * 60 * 60)
    => /\ jwt.result.ok
       /\ jwt.result.id = jwt.payload.id
       /\ jwt.result.role = jwt.payload.role
       /\ jwt.result.email = jwt.payload.email
       /\ jwt.result.is_admin = (jwt.payload.has_is_admin /\ jwt.payload.is_admin)

C10_Witness ==
  /\ jwt.pc = "verified" /\ jwt.result.ok
  /\ jwt.payload.role = "admin" /\ jwt.payload.has_is_admin /\ jwt.payload.is_admin
  /\ jwt.result.is_admin
  /\ jwt.issued_at = 0
  /\ jwt.verified_at = JWT_EXPIRES_IN * 1000 - 1

-----------------------------------------------------------------------------
(* Properties of the catalog *)

DeleteOps == {"deleteTrainingProgram"}

(* C11: a deleteTrainingProgram call that found the program ends, when at  *)
(* least one enrollment references the program, in failure with the        *)
(* program still there, and otherwise in success with the program gone;    *)
(* and no enrollment references a program that has been deleted.           *)
C11_DeleteBlockedOnlyByEnrollments ==
  [][/\ \A s \in Slots :
          (Finishes(s, DeleteOps) /\ calls[s].pc \in {"dt_count", "dt_delete"}
           /\ trainings[calls[s].args.tid].exists)
            => IF \E e \in enrollments : e.training_id = calls[s].args.tid
                 THEN ~calls'[s].res.ok /\ trainings' = trainings
                 ELSE calls'[s].res.ok /\ ~trainings'[calls[s].args.tid].exists
     /\ \A e \in enrollments' : trainings'[e.training_id].exists]_vars

-----------------------------------------------------------------------------
(* Properties of the status machines *)

(* C12: an enrollment goes from another status to enrolled only in the     *)
(* step in which an updatePaymentStatus call with target verified, for a   *)
(* payment of the enrollment's (user, training) pair, succeeds.            *)
C12_EnrolledOnlyByVerification ==
  [][\A e \in enrollments :
       (e.status # "enrolled" /\ StatusAfter(e.id) = {"enrolled"})
         => \E s \in Slots :
              /\ Finishes(s, UpdateOps) /\ calls'[s].res.ok
              /\ calls[s].args.status = "verified"
              /\ e \in PairOf(calls[s].args.pid)]_vars

(* C13: an enrollment with status completed keeps that status in every     *)
(* step.                                                                   *)
C13_CompletedIsFinal ==
  [][\A e \in enrollments :
       e.status = "completed" => StatusAfter(e.id) = {"completed"}]_vars

PaymentEdges ==
  {<<"pending_verification", "verified">>, <<"pending_verification", "failed">>,
   <<"verified", "refunded">>}

(* C14: every step that changes the status of a payment takes it along     *)
(* pending_verification -> verified, pending_verification -> failed or     *)
(* verified -> refunded.                                                   *)
C14_PaymentStatusEdges ==
  [][\A p \in payments, q \in payments' :
       (q.id = p.id /\ q.status # p.status)
         => <<p.status, q.status>> \in PaymentEdges]_vars

-----------------------------------------------------------------------------
(* Properties of confirmPayment *)

OwnPayment(s) ==
  {p \in payments : p.id = calls[s].args.pid /\ p.user_id = calls[s].user}

ConfirmMoves(s) == calls'[s] # calls[s] /\ calls[s].op = "confirmPayment"

(* C15: confirmPayment by the owner on a pending_verification payment      *)
(* younger than 5 minutes goes on to its write without touching a row, and *)
(* the write stores the given transaction reference, null when none is     *)
(* given, leaves the payment's status and every other payment as they      *)
(* were, changes no enrollment, and answers with the stored reference.     *)
C15_ConfirmRecordsReference ==
  [][\A s \in Slots :
       ConfirmMoves(s)
         => /\ calls[s].pc = "cp_find"
                 => \A p \in OwnPayment(s) :
                      (p.status = "pending_verification"
                       /\ now - p.created_at < FIVE_MINUTES)
                        => calls'[s].pc = "cp_update" /\ UNCHANGED dbvars
            /\ calls[s].pc = "cp_update"
                 => LET given == calls[s].args.transactionReference
                        stored == IF given = "undefined" \/ given = "" THEN "null" ELSE given
                    IN /\ \A p \in PaymentById(calls[s].args.pid) :
                            payments' = (payments \ {p})
                                          \cup {[p EXCEPT !.transaction_reference = stored]}
                       /\ UNCHANGED <<users, trainings, enrollments, certificates>>
                       /\ calls'[s].res.ok
                       /\ calls'[s].res.status = "pending_verification"
                       /\ calls'[s].res.transaction_reference = stored]_vars

C15_Witness ==
  \E s \in Slots :
    /\ calls[s].op = "confirmPayment" /\ calls[s].pc = "done" /\ calls[s].res.ok
    /\ calls[s].args.transactionReference = "UTR1"
    /\ \E p \in OwnPayment(s) :
         p.status = "pending_verification" /\ p.transaction_reference = "UTR1"
    /\ \A e \in enrollments : e.status = "pending_payment"

(* C16: confirmPayment by the owner on a pending_verification payment of   *)
(* age 5 minutes or more goes on to the expiry write, which sets the       *)
(* payment to failed, leaves its transaction reference alone and fails     *)
(* with the session-expired error; on a payment in another status the call *)
(* fails at its lookup and no row changes.                                 *)
C16_ConfirmAfterWindowFails ==
  [][\A s \in Slots :
       ConfirmMoves(s)
         => /\ calls[s].pc = "cp_find"
                 => \A p \in OwnPayment(s) :
                      /\ (p.status = "pending_verification"
                          /\ now - p.created_at >= FIVE_MINUTES)
                           => calls'[s].pc = "cp_expire" /\ UNCHANGED dbvars
                      /\ p.status # "pending_verification"
                           => /\ calls'[s].pc = "done"
                              /\ calls'[s].res =
                                   [ok |-> FALSE,
                                    error |-> "Payment is not in pending verification status"]
                              /\ UNCHANGED dbvars
            /\ calls[s].pc = "cp_expire"
                 => /\ \A p \in PaymentById(calls[s].args.pid) :
                         payments' = (payments \ {p}) \cup {[p EXCEPT !.status = "failed"]}
                    /\ UNCHANGED <<users, trainings, enrollments, certificates>>
                    /\ calls'[s].pc = "done"
                    /\ calls'[s].res =
                         [ok |-> FALSE,
                          error |-> "Payment session expired. Please retry payment."]]_vars

C16_Witness ==
  \E s \in Slots :
    /\ calls[s].op = "confirmPayment" /\ calls[s].pc = "done" /\ ~calls[s].res.ok
    /\ calls[s].res.error = "Payment session expired. Please retry payment."
    /\ calls[s].args.transactionReference = "UTR1"
    /\ \E p \in OwnPayment(s) : p.status = "failed" /\ p.transaction_reference = "null"

-----------------------------------------------------------------------------
(* Connections: the pool of the prisma client, which every service uses,    *)
(* and the pg pool of db/connection, which query() uses                     *)

MaxConns == 2

PoolNames == {"prisma", "pg"}
ConnIds == PoolNames \X (1..MaxConns)

(* a fresh connection: nobody holds it and no rls.* setting is bound on it *)
FreshConn == [holder |-> "free", uid |-> "", role |-> ""]

(* the authenticated callers, req.user.id and req.user.role *)
Callers == {"u1", "a1"}
CallerRole(c) == IF c = "a1" THEN "admin" ELSE "user"

Statement(kind, c, k) ==
  [kind |-> kind, caller |-> c, conn |-> k,
   uid |-> pool.conns[k].uid, role |-> pool.conns[k].role]

(* pool.connect(): a free connection of the named pool goes to the caller *)
Borrow(c, name, next) ==
  /\ pool.at[c] = "idle"
  /\ \E k \in ConnIds :
       /\ k[1] = name
       /\ pool.conns[k].holder = "free"
       /\ pool' = [pool EXCEPT !.conns[k].holder = c, !.at[c] = next]

Held(c) == CHOOSE k \in ConnIds : pool.conns[k].holder = c

(* client.release(): the connection goes back as it is; nothing resets it *)
Release(c, from) ==
  /\ pool.at[c] = from
  /\ pool' = [pool EXCEPT !.conns[Held(c)].holder = "free", !.at[c] = "idle"]

(* one statement of a service, prisma.<model>.<operation>(...): the client  *)
(* takes a connection of its own pool, runs the statement and gives the     *)
(* connection back; no service sets rls.current_user_id or                  *)
(* rls.current_user_role first                                              *)
PrismaBorrow(c) == Borrow(c, "prisma", "prisma_run")

PrismaRun(c) ==
  /\ pool.at[c] = "prisma_run"
  /\ pool' = [pool EXCEPT !.ran = @ \cup {Statement("service", c, Held(c))},
                          !.at[c] = "prisma_release"]

PrismaRelease(c) == Release(c, "prisma_release")

(* query(text, params) of db/connection, as logAdminActivity calls it for  *)
(* an administrator                                                         *)
QueryConnect(c) == CallerRole(c) = "admin" /\ Borrow(c, "pg", "query_run")

QueryRun(c) ==
  /\ pool.at[c] = "query_run"
  /\ pool' = [pool EXCEPT !.ran = @ \cup {Statement("audit", c, Held(c))},
                          !.at[c] = "query_release"]

QueryRelease(c) == Release(c, "query_release")

InitPool ==
  /\ users = [u \in UserIds |-> IF u = "a1" THEN Admin("a1@x.io", "Ada")
                                ELSE Member(IF u = "u1" THEN "u1@x.io" ELSE "u2@x.io", "Uma")]
  /\ tokens = IssuedAtStart(users)
  /\ trainings = [t \in TrainingIds |-> [exists |-> TRUE, is_active |-> TRUE]]
  /\ enrollments = {}
  /\ payments = {}
  /\ certificates = {}
  /\ now = 0
  /\ ticks = 0
  /\ calls = [s \in Slots |-> Idle]
  /\ jwt = NoJwt
  /\ req = NoReq
  /\ rls = NoRls
  /\ pool = [on |-> TRUE,
             conns |-> [k \in ConnIds |-> FreshConn],
             at |-> [c \in Callers |-> "idle"],
             ran |-> {}]

NextPool ==
  \/ \E c \in Callers : PrismaBorrow(c) /\ UNCHANGED <<dbvars, clock, calls, tokens, jwt, req, rls>>
  \/ \E c \in Callers : PrismaRun(c) /\ UNCHANGED <<dbvars, clock, calls, tokens, jwt, req, rls>>
  \/ \E c \in Callers : PrismaRelease(c) /\ UNCHANGED <<dbvars, clock, calls, tokens, jwt, req, rls>>
  \/ \E c \in Callers : QueryConnect(c) /\ UNCHANGED <<dbvars, clock, calls, tokens, jwt, req, rls>>
  \/ \E c \in Callers : QueryRun(c) /\ UNCHANGED <<dbvars, clock, calls, tokens, jwt, req, rls>>
  \/ \E c \in Callers : QueryRelease(c) /\ UNCHANGED <<dbvars, clock, calls, tokens, jwt, req, rls>>

SpecPool == InitPool /\ [][NextPool]_vars

-----------------------------------------------------------------------------
(* db/connection: query, transaction and getClientWithRLS called by         *)
(* concurrent callers; every statement sent on a client succeeds or throws  *)

Outcomes == {"ok", "throws"}

(* transaction(queries): BEGIN, the statements, COMMIT inside try; a throw  *)
(* goes to the catch block, which sends ROLLBACK; finally releases          *)
TxConnect(c) == Borrow(c, "pg", "tx_begin")

TxStatement(c, from, next, outcome) ==
  /\ pool.at[c] = from
  /\ pool' = [pool EXCEPT !.at[c] = IF outcome = "ok" THEN next ELSE "tx_rollback"]

TxBegin(c, outcome) == TxStatement(c, "tx_begin", "tx_queries", outcome)

TxQueries(c, outcome) == TxStatement(c, "tx_queries", "tx_commit", outcome)

TxCommit(c, outcome) == TxStatement(c, "tx_commit", "tx_release", outcome)

(* await client.query('ROLLBACK') in the catch block: whether it throws or  *)
(* not, the finally block runs next                                         *)
TxRollback(c, outcome) ==
  /\ pool.at[c] = "tx_rollback"
  /\ pool' = [pool EXCEPT !.at[c] = "tx_release"]

TxRelease(c) == Release(c, "tx_release")

(* getClientWithRLS: pool.connect(), then setRLSContext on the client *)
RlsConnect(c) == Borrow(c, "pg", "rls_bind")

(* setRLSContext sends two SET LOCAL statements outside a transaction,      *)
(* which bind nothing on the connection.  When both succeed the client is   *)
(* returned to the caller; when one throws, the exception leaves            *)
(* getClientWithRLS and the client is referenced nowhere.  No branch        *)
(* releases.                                                                *)
RlsBind(c, outcome) ==
  /\ pool.at[c] = "rls_bind"
  /\ pool' = [pool EXCEPT !.conns[Held(c)].holder =
                             IF outcome = "ok" THEN "returned" ELSE "lost",
                          !.at[c] = "idle"]

NextClients ==
  \/ \E c \in Callers : QueryConnect(c) /\ UNCHANGED <<dbvars, clock, calls, tokens, jwt, req, rls>>
  \/ \E c \in Callers : QueryRun(c) /\ UNCHANGED <<dbvars, clock, calls, tokens, jwt, req, rls>>
  \/ \E c \in Callers : QueryRelease(c) /\ UNCHANGED <<dbvars, clock, calls, tokens, jwt, req, rls>>
  \/ \E c \in Callers : TxConnect(c) /\ UNCHANGED <<dbvars, clock, calls, tokens, jwt, req, rls>>
  \/ \E c \in Callers, o \in Outcomes :
       TxBegin(c, o) /\ UNCHANGED <<dbvars, clock, calls, tokens, jwt, req, rls>>
  \/ \E c \in Callers, o \in Outcomes :
       TxQueries(c, o) /\ UNCHANGED <<dbvars, clock, calls, tokens, jwt, req, rls>>
  \/ \E c \in Callers, o \in Outcomes :
       TxCommit(c, o) /\ UNCHANGED <<dbvars, clock, calls, tokens, jwt, req, rls>>
  \/ \E c \in Callers, o \in Outcomes :
       TxRollback(c, o) /\ UNCHANGED <<dbvars, clock, calls, tokens, jwt, req, rls>>
  \/ \E c \in Callers : TxRelease(c) /\ UNCHANGED <<dbvars, clock, calls, tokens, jwt, req, rls>>
  \/ \E c \in Callers : RlsConnect(c) /\ UNCHANGED <<dbvars, clock, calls, tokens, jwt, req, rls>>
  \/ \E c \in Callers, o \in Outcomes :
       RlsBind(c, o) /\ UNCHANGED <<dbvars, clock, calls, tokens, jwt, req, rls>>

SpecClients == InitPool /\ [][NextClients]_vars

-----------------------------------------------------------------------------
(* Row-level policies on enrollments and payments.  A statement runs with  *)
(* the settings rls.current_user_role and rls.current_user_id of its       *)
(* connection; a setting that was never set reads as NULL.                 *)

Null == "NULL"

(* SQL's three-valued =, AND and OR *)
SqlEq(a, b) == IF a = Null \/ b = Null THEN Null ELSE IF a = b THEN "true" ELSE "false"

SqlAnd(x, y) ==
  IF x = "false" \/ y = "false" THEN "false"
  ELSE IF x = Null \/ y = Null THEN Null ELSE "true"

SqlOr(x, y) ==
  IF x = "true" \/ y = "true" THEN "true"
  ELSE IF x = Null \/ y = Null THEN Null ELSE "false"

(* current_setting(name, true) *)
current_setting(ctx, name) == ctx[name]

user_own_any_row(ctx, row) ==
  SqlOr(SqlEq(current_setting(ctx, "role"), "admin"),
        SqlEq(current_setting(ctx, "role"), "user"))

(* the expression of enrollments_user_own and of payments_user_own, which  *)
(* is their USING and their WITH CHECK                                     *)
user_own(ctx, row) ==
  SqlOr(SqlEq(current_setting(ctx, "role"), "admin"),
        SqlAnd(SqlEq(current_setting(ctx, "role"), "user"),
               SqlEq(row.user_id, current_setting(ctx, "id"))))

(* the expression of enrollments_admin_all and of payments_admin_all *)
admin_all(ctx, row) == SqlEq(current_setting(ctx, "role"), "admin")

(* permissive policies of one table are combined with OR; a row passes     *)
(* only when the result is true                                            *)
RowPasses(table, ctx, row) ==
  SqlOr(user_own(ctx, row), admin_all(ctx, row)) = "true"

(* FOR ALL: USING filters the existing row of SELECT, UPDATE and DELETE,   *)
(* WITH CHECK tests the new row of INSERT and UPDATE                       *)
PolicyPermits(stmt, ctx) ==
  /\ stmt.cmd \in {"select", "update", "delete"} => RowPasses(stmt.table, ctx, stmt.old)
  /\ stmt.cmd \in {"insert", "update"} => RowPasses(stmt.table, ctx, stmt.new)

RlsTables == {"enrollments", "payments"}

RlsCommands == {"select", "insert", "update", "delete"}

RlsContexts ==
  {[role |-> r, id |-> i] : r \in {Null, "user", "admin", "guest"}, i \in {Null, "u1", "u2"}}

RlsRows == {[user_id |-> u] : u \in {"u1", "u2"}}

InitPolicy ==
  /\ users = [u \in UserIds |-> IF u = "a1" THEN Admin("a1@x.io", "Ada")
                                ELSE Member(IF u = "u1" THEN "u1@x.io" ELSE "u2@x.io", "Uma")]
  /\ tokens = IssuedAtStart(users)
  /\ trainings = [t \in TrainingIds |-> [exists |-> TRUE, is_active |-> TRUE]]
  /\ enrollments = {}
  /\ payments = {}
  /\ certificates = {}
  /\ now = 0
  /\ ticks = 0
  /\ calls = [s \in Slots |-> Idle]
  /\ jwt = NoJwt
  /\ req = NoReq
  /\ pool = NoPool
  /\ \E t \in RlsTables, cmd \in RlsCommands, ctx \in RlsContexts, old \in RlsRows,
        new \in RlsRows :
       rls = [stage |-> "sent", ctx |-> ctx,
              stmt |-> [table |-> t, cmd |-> cmd, old |-> old, new |-> new],
              permitted |-> FALSE]

RunUnderPolicy ==
  /\ rls.stage = "sent"
  /\ rls' = [rls EXCEPT !.stage = "answered", !.permitted = PolicyPermits(rls.stmt, rls.ctx)]
  /\ UNCHANGED <<dbvars, clock, calls, tokens, jwt, req, pool>>

NextPolicy == RunUnderPolicy

SpecPolicy == InitPolicy /\ [][NextPolicy]_vars

-----------------------------------------------------------------------------
(* Properties of the gates *)

(* what the claim asks of a request: a Bearer header of two parts whose    *)
(* token is signed with the server's key for this issuer and audience, is  *)
(* not expired, and carries id, email and a role of user or admin          *)
BearerTokenVerifies ==
  /\ req.header.present /\ req.header.parts = 2 /\ req.header.scheme = "Bearer"
  /\ req.header.token.ok
  /\ req.header.token.key = "server-secret"
  /\ req.header.token.iss = "qthink-solutions-backend"
  /\ req.header.token.aud = "qthink-solutions-users"
  /\ now \div 1000 < req.header.token.exp
  /\ req.header.token.id # "" /\ req.header.token.email # ""
  /\ req.header.token.role \in {"user", "admin"}

(* C17: authenticateToken hands the request on, with req.user taken from   *)
(* the token, only when the bearer token verifies; in every other case it  *)
(* answers 401 and attaches no req.user; and a service is started only for *)
(* a request that carries req.user and was handed on.                      *)
C17_AuthenticateFailsClosed ==
  [][/\ (req.stage = "auth" /\ req' # req)
          => IF BearerTokenVerifies
               THEN /\ req'.stage = "role" /\ req'.status = ""
                    /\ req'.user.attached
                    /\ req'.user.id = req.header.token.id
                    /\ req'.user.role = req.header.token.role
                    /\ req'.user.email = req.header.token.email
               ELSE /\ req'.stage = "responded" /\ req'.status = "401"
                    /\ req'.user = NoReqUser
     /\ calls' # calls => req.stage = "handler" /\ req.user.attached /\ req.status = ""]_vars

C17_Witness ==
  /\ req.stage = "responded" /\ req.status = "401" /\ req.message = "Invalid token"
  /\ req.header.scheme = "Bearer" /\ req.header.parts = 2
  /\ req.header.token.ok /\ req.header.token.key = "other-secret"
  /\ req.user = NoReqUser
  /\ calls[HandlerSlot] = Idle

C19_ServiceStatementsRunBound ==
  pool.on =>
    \A r \in pool.ran :
      r.kind = "service" => r.uid = r.caller /\ r.role = CallerRole(r.caller)

(* C20: logAdminActivity hands the administrator's request on to its       *)
(* handler without answering and without touching a stored row, whether    *)
(* its insert failed or not; the response then reports the result of the   *)
(* service, and a failed insert leaves the committed writes of the service *)
(* in place.                                                               *)
C20_AuditIsBestEffort ==
  [][/\ (req.stage = "audit" /\ req' # req)
          => /\ req'.stage = "handler" /\ req'.status = ""
             /\ UNCHANGED <<dbvars, calls>>
     /\ (req.stage = "handler" /\ req'.stage = "responded")
          => /\ calls[HandlerSlot].pc = "done"
             /\ req'.status = (IF calls[HandlerSlot].res.ok THEN "200" ELSE "error")
             /\ UNCHANGED <<dbvars, calls>>
     /\ (req.stage = "responded" /\ req.route.name = "admin" /\ req.audit # "none")
          => UNCHANGED dbvars]_vars

C20_Witness ==
  /\ req.stage = "responded" /\ req.status = "200" /\ req.audit = "failed"
  /\ calls[HandlerSlot].op = "updatePaymentStatus" /\ calls[HandlerSlot].res.ok
  /\ calls[HandlerSlot].args.status = "verified"
  /\ \E p \in PaymentById(1) : p.status = "verified"
  /\ \E e \in EnrollmentById(1) : e.status = "enrolled"

-----------------------------------------------------------------------------
(* Properties of the payments of a pair *)

CreatedPayments == {p \in payments' : PaymentById(p.id) = {}}

(* C21: a payment row is created only while the enrollment of its own      *)
(* (user, training) pair exists and has status pending_payment, by         *)
(* initiatePaymentForEnrollment and by createPayment alike.                *)
C21_PaymentOnlyForPendingEnrollment ==
  [][\A p \in CreatedPayments :
       \E e \in EnrollmentsOf(p.user_id, p.training_id) : e.status = "pending_payment"]_vars

PendingOf(rows, u, t) ==
  {p \in rows : p.user_id = u /\ p.training_id = t /\ p.status = "pending_verification"}

(* C22: when initiatePaymentForEnrollment found a pending_verification     *)
(* payment of the pair older than the window, that payment is failed       *)
(* before the call creates its one new payment, and once the new payment   *)
(* is created the pair has exactly one payment in pending_verification.    *)
C22_ExpireThenOneOpenSession ==
  [][\A s \in Slots :
       (/\ calls[s].op = "initiatePaymentForEnrollment"
        /\ calls[s].pc = "ip_create" /\ calls[s].existing # NoRow
        /\ calls'[s].pc = "ip_new_qr")
         => /\ \A p \in PaymentById(calls[s].existing.id) : p.status = "failed"
            /\ Cardinality(CreatedPayments) = 1
            /\ Cardinality(PendingOf(payments', calls[s].user,
                                     calls[s].enrollment.training_id)) = 1]_vars

RowAfter(e) == CHOOSE x \in enrollments' : x.id = e.id

(* C23: a commit of updatePaymentStatus changes an enrollment only if the  *)
(* enrollment belongs to the payment's own (user, training) pair and       *)
(* either the target is verified and the enrollment moves from             *)
(* pending_payment to enrolled, or the target is failed and it moves from  *)
(* enrolled to pending_payment; nothing but the status of such a row       *)
(* changes, and with any other target no enrollment changes.               *)
C23_CascadeFrame ==
  [][\A s \in Slots :
       (calls[s].op = "updatePaymentStatus" /\ calls'[s] # calls[s])
         => /\ {e.id : e \in enrollments'} = {e.id : e \in enrollments}
            /\ \A e \in enrollments :
                 RowAfter(e) # e
                   => /\ RowAfter(e) = [e EXCEPT !.status = RowAfter(e).status]
                      /\ \E p \in PaymentById(calls[s].args.pid) :
                           e.user_id = p.user_id /\ e.training_id = p.training_id
                      /\ \/ /\ calls[s].args.status = "verified"
                            /\ e.status = "pending_payment"
                            /\ RowAfter(e).status = "enrolled"
                         \/ /\ calls[s].args.status = "failed"
                            /\ e.status = "enrolled"
                            /\ RowAfter(e).status = "pending_payment"]_vars

(* both payments were set, one verified and one failed, and each member's  *)
(* enrollment followed its own payment only                                *)
C23_Witness ==
  /\ \E p \in PaymentById(1) : p.status = "verified"
  /\ \E p \in PaymentById(2) : p.status = "failed"
  /\ \E e \in EnrollmentById(1) : e.status = "enrolled"
  /\ \E e \in EnrollmentById(2) : e.status = "pending_payment"
  /\ \A s \in Slots : calls[s].op = "updatePaymentStatus" /\ calls[s].pc = "done"
                        /\ calls[s].res.ok

(* C27: whenever some payment of a (user, training) pair is verified, the  *)
(* enrollment of that pair is not in pending_payment.                      *)
C27_VerifiedPaymentMeansNotPending ==
  \A p \in payments :
    p.status = "verified"
      => \A e \in EnrollmentsOf(p.user_id, p.training_id) : e.status # "pending_payment"

LazyExpiryPcs == {"gs_expire", "cp_expire", "ip_expire"}

(* C28: the lazy-expiry write of getPaymentStatus, confirmPayment and      *)
(* initiatePaymentForEnrollment changes a payment only if the stored       *)
(* status of that payment is pending_verification when the write runs.     *)
C28_ExpiryWritesOnlyPending ==
  [][\A s \in Slots :
       (calls[s].pc \in LazyExpiryPcs /\ calls'[s] # calls[s])
         => \A p \in payments : p \notin payments' => p.status = "pending_verification"]_vars

(* C29: while an enrollment is in pending_payment, its (user, training)   *)
(* pair has at most one payment in pending_verification, however the       *)
(* owner's initiatePaymentForEnrollment calls interleave.                  *)
C29_OneOpenSessionPerPair ==
  \A e \in enrollments :
    e.status = "pending_payment"
      => Cardinality(PendingOf(payments, e.user_id, e.training_id)) <= 1

-----------------------------------------------------------------------------
(* Properties of db/connection *)

(* C24: every connection that query, transaction or getClientWithRLS took  *)
(* from the pool is held by a call that is still running: once a call has  *)
(* ended, by return or by throw, its connection is back in the pool.       *)
C24_EveryBorrowReleased ==
  pool.on =>
    \A k \in ConnIds :
      \/ pool.conns[k].holder = "free"
      \/ \E c \in Callers : pool.conns[k].holder = c /\ pool.at[c] # "idle"

-----------------------------------------------------------------------------
(* Properties of the row-level policies *)

(* the rows a statement touches: the existing row of a select, update or   *)
(* delete, the new row of an insert or update                              *)
TouchedRows(stmt) ==
  (IF stmt.cmd \in {"select", "update", "delete"} THEN {stmt.old} ELSE {})
    \cup (IF stmt.cmd \in {"insert", "update"} THEN {stmt.new} ELSE {})

(* C25: under the policies on enrollments and payments a statement is      *)
(* permitted with role admin bound on any row, with role user and id u     *)
(* bound exactly when every row it touches has user_id = u, and with no    *)
(* role bound, or any other role, on no row.                               *)
C25_PolicyByOwnerOrAdmin ==
  rls.stage = "answered" =>
    (rls.permitted <=>
       \/ rls.ctx.role = "admin"
       \/ /\ rls.ctx.role = "user"
          /\ rls.ctx.id \in {"u1", "u2"}
          /\ \A row \in TouchedRows(rls.stmt) : row.user_id = rls.ctx.id)

(* a member's update that would hand the row to another member is refused *)
C25_Witness ==
  /\ rls.stage = "answered" /\ ~rls.permitted
  /\ rls.ctx = [role |-> "user", id |-> "u1"]
  /\ rls.stmt.cmd = "update"
  /\ rls.stmt.old.user_id = "u1" /\ rls.stmt.new.user_id = "u2"

-----------------------------------------------------------------------------
(* Properties of roles *)

(* C26: every account has role admin exactly when its is_admin is true.    *)
C26_RoleMatchesIsAdmin ==
  \A u \in UserIds : users[u].exists => (users[u].role = "admin" <=> users[u].is_admin)

(* C30: a request is let through the administrator gate only if the       *)
(* stored role of the account that sent it is admin at that time.          *)
C30_AdminGateFollowsStoredRole ==
  [][\A s \in Slots :
       (~Busy(s) /\ calls'[s] # calls[s] /\ calls'[s].op = "updateUserRole")
         => users[calls'[s].user].role = "admin"]_vars

====
